---- MODULE Spec2Model ----
(***************************************************************************)
(* A model of the read-only SQLite query engine: the varint codec, the     *)
(* record decoder and the B-tree walkers of database.rs.                   *)
(*                                                                         *)
(* Byte strings (text values, SQL literals, output lines) are sequences of *)
(* one-character strings.  Signed 64-bit integers that are produced by the *)
(* byte-level decoders are sequences of 64 bits, most significant first.   *)
(***************************************************************************)
EXTENDS Integers, Sequences, FiniteSets

VARIABLES
    pages,          \* the file: page number -> parsed page (Database.file)
    schema,         \* Database.schema: the one table of the store
    rows,           \* history: the source rows the trees were built from
    sql_statement,  \* the SelectFields handed to select_fields
    out,            \* the output sink: the lines written so far
    emitted,        \* history: rowid of the cell behind each written line
    plan,           \* history: which branch select_fields took
    result,         \* what select_fields returned
    bytes,          \* the slice handed to varint::read
    varint,         \* what varint::read returned
    payload,        \* the slice handed to Record::read
    column_count,   \* the column count handed to Record::read
    record,         \* what Record::read returned
    serial,         \* the u64 handed to ColumnType::from
    column_type,    \* what ColumnType::from returned
    impure,         \* history: the page whose kind is foreign to its tree, or 0
    wanted_ids,     \* the rowid slice handed to read_ids_from_table
    page_loads,     \* history: the get_page calls of the walk, in order
    db_file,        \* the bytes of the database file handed to Database::open
    overflow_checks,\* the build: TRUE when integer overflow panics, FALSE when it wraps
    db,             \* what Database::open returned
    loaded_page,    \* what Database::get_page returned
    cell_kind,      \* the PageKind whose cell reader is applied
    cell_data,      \* the slice handed to PageKind::read_cell
    cell_layout,    \* history: how the bytes of data were laid out
    decoded_cell,   \* what PageKind::read_cell returned
    sql_input,      \* the text handed to the SQL parser
    parsed,         \* what the SQL parser returned
    schema_rows,    \* the rows of sqlite_schema in page-1 cell order
    schema_store,   \* what SchemaStore::read returned
    listing,        \* the lines written by .tables
    dbinfo          \* the lines written by .dbinfo

vars == <<pages, schema, rows, sql_statement, out, emitted, plan, result,
          bytes, varint, payload, column_count, record, serial, column_type,
          impure, wanted_ids, page_loads, db_file, overflow_checks, db, loaded_page,
          cell_kind, cell_data, cell_layout, decoded_cell,
          sql_input, parsed, schema_rows, schema_store, listing, dbinfo>>

walkVars == <<pages, schema, rows, sql_statement, out, emitted, plan, result,
              impure, wanted_ids, page_loads>>
openVars == <<db_file, overflow_checks, db, loaded_page>>
cellVars == <<cell_kind, cell_data, cell_layout, decoded_cell>>
sqlVars == <<sql_input, parsed>>
schemaVars == <<schema_rows, schema_store, listing, dbinfo>>
varintVars == <<bytes, varint>>
recordVars == <<payload, column_count, record>>
serialVars == <<serial, column_type>>

----------------------------------------------------------------------------
(* Bounds *)

MaxRowid == 4       \* the table holds at most MaxRowid rows
MaxCont == 9        \* longest run of continuation bytes at the head of a slice
MaxTail == 2        \* bytes that follow the run of continuation bytes
MaxSerial == 140    \* serial types handed to ColumnType::from are 0..MaxSerial
MaxCols == 2        \* serial types in a generated record header
MaxBody == 9        \* bytes in the body of a generated record

----------------------------------------------------------------------------
(* Generic helpers *)

RECURSIVE SortedSeq(_)
SortedSeq(S) ==
    IF S = {} THEN <<>>
    ELSE LET m == CHOOSE x \in S : \A y \in S : x <= y
         IN  <<m>> \o SortedSeq(S \ {m})

RECURSIVE Flatten(_)
Flatten(ss) == IF ss = <<>> THEN <<>> ELSE Head(ss) \o Flatten(Tail(ss))

Count(s, x) == Cardinality({i \in 1..Len(s) : s[i] = x})

----------------------------------------------------------------------------
(* ColumnValue and its Display implementation *)

Null == [type |-> "Null", n |-> 0, content |-> <<>>]
I8(k) == [type |-> "I8", n |-> k, content |-> <<>>]
Text(s) == [type |-> "Text", n |-> 0, content |-> s]

Digits == <<"0", "1", "2", "3", "4", "5", "6", "7", "8", "9">>

RECURSIVE DecimalNat(_)
DecimalNat(k) ==
    IF k < 10 THEN <<Digits[k + 1]>>
    ELSE DecimalNat(k \div 10) \o <<Digits[(k % 10) + 1]>>

Decimal(k) == IF k < 0 THEN <<"-">> \o DecimalNat(0 - k) ELSE DecimalNat(k)

Format(v) ==
    CASE v.type = "Null" -> <<"N", "U", "L", "L">>
      [] v.type = "I8" -> Decimal(v.n)
      [] v.type = "Text" -> v.content

is_number(v) == v.type = "I8"

RECURSIVE Join(_, _)
Join(fields, sep) ==
    IF fields = <<>> THEN <<>>
    ELSE IF Len(fields) = 1 THEN fields[1]
    ELSE fields[1] \o <<sep>> \o Join(Tail(fields), sep)

----------------------------------------------------------------------------
(* Schema entities (sqlite_schema.rs) and the statement (sql.rs) *)

NoWhere == [some |-> FALSE, field |-> "", value |-> <<>>]
Where(f, v) == [some |-> TRUE, field |-> f, value |-> v]

NoIndex == [some |-> FALSE, index |-> <<>>]

SqlitePrefix == <<"s", "q", "l", "i", "t", "e", "_">>

starts_with(name, prefix) ==
    /\ Len(name) >= Len(prefix)
    /\ SubSeq(name, 1, Len(prefix)) = prefix

user_tables(store) ==
    {name \in DOMAIN store.tables : ~starts_with(name, SqlitePrefix)}

find_table(store, table_name) ==
    IF table_name \in user_tables(store)
    THEN [some |-> TRUE, table |-> store.tables[table_name]]
    ELSE [some |-> FALSE, table |-> <<>>]

find_column(table, column_name) ==
    LET hits == {i \in 1..Len(table.columns) : table.columns[i].name = column_name}
    IN  IF hits = {} THEN [some |-> FALSE, pos |-> 0, is_primary_key |-> FALSE]
        ELSE LET i == CHOOSE h \in hits : \A g \in hits : h <= g
             IN  [some |-> TRUE, pos |-> i - 1,
                  is_primary_key |-> table.columns[i].is_primary_key]

find_applicable_index(table, where_clause) ==
    LET hits == {i \in 1..Len(table.indexes) :
                    /\ where_clause.some
                    /\ Len(table.indexes[i].columns) > 0
                    /\ table.indexes[i].columns[1] = where_clause.field}
    IN  IF hits = {} THEN NoIndex
        ELSE [some |-> TRUE,
              index |-> table.indexes[CHOOSE h \in hits : \A g \in hits : h <= g]]

(* Query::new: a select-list column that the table lacks hits expect(). *)
Query_new(table, stmt) ==
    LET found == [i \in 1..Len(stmt.fields) |-> find_column(table, stmt.fields[i])]
    IN  [panic |-> \E i \in 1..Len(found) : ~found[i].some,
         table |-> table,
         select_fields |-> [i \in 1..Len(found) |->
                              <<found[i].pos, found[i].is_primary_key>>],
         filter |-> stmt.where_clause]

(* IndexQuery::new: as Query::new, plus the position of the WHERE column in
   the index's column list. *)
IndexQuery_new(table, stmt, index) ==
    LET q == Query_new(table, stmt)
        hits == {i \in 1..Len(index.columns) :
                    index.columns[i] = stmt.where_clause.field}
    IN  [panic |-> q.panic \/ hits = {},
         table |-> table,
         select_fields |-> q.select_fields,
         filter |-> stmt.where_clause,
         index |-> index,
         index_field |-> IF hits = {} THEN 0
                         ELSE (CHOOSE h \in hits : \A g \in hits : h <= g) - 1]

----------------------------------------------------------------------------
(* Page access *)

NoChild == [some |-> FALSE, number |-> 0]
Child(k) == [some |-> TRUE, number |-> k]

(* get_page(number) reads the page at file offset number * page_size, that
   is page number + 1; a read past the end of the file is an Io error. *)
get_page(file, number) ==
    IF number + 1 \in DOMAIN file
    THEN [status |-> "ok", page |-> file[number + 1]]
    ELSE [status |-> "Io", page |-> <<>>]

Record_read_rowid(rowid, cell_payload) == [rowid |-> rowid, values |-> cell_payload]

----------------------------------------------------------------------------
(* Result formatter: one line per record, values joined by '|' *)

(* faulty variant of RowLine: the rowid alias is rendered from the record
   like any other column *)
RowLine_from_payload(select_fields, rec) ==
    Join([k \in 1..Len(select_fields) |->
            Format(rec.values[select_fields[k][1] + 1])], "|")

RowLine(select_fields, rec) ==
    Join([k \in 1..Len(select_fields) |->
            IF select_fields[k][2]
            THEN Decimal(rec.rowid)
            ELSE Format(rec.values[select_fields[k][1] + 1])], "|")

Written(select_fields, recs) ==
    [k \in 1..Len(recs) |->
        [rowid |-> recs[k].rowid, line |-> RowLine(select_fields, recs[k])]]

----------------------------------------------------------------------------
(* Table scan: read_table / read_interior_table / read_leaf_table *)

read_leaf_table(page, query) ==
    LET recs == [k \in 1..Len(page.cells) |->
                    Record_read_rowid(page.cells[k].rowid, page.cells[k].payload)]
        col == find_column(query.table, query.filter.field)
        Pass(rec) == \/ ~query.filter.some
                     \/ Format(rec.values[col.pos + 1]) = query.filter.value
    IN  IF query.filter.some /\ ~col.some /\ recs # <<>>
        THEN [status |-> "panic", rows |-> <<>>]
        ELSE [status |-> "ok",
              rows |-> Written(query.select_fields, SelectSeq(recs, Pass))]

RECURSIVE read_table(_, _, _)
RECURSIVE read_interior_table_from(_, _, _, _, _)

(* faulty variant of read_interior_table_from: the walk stops after the last
   cell and never takes the right child *)
RECURSIVE read_interior_table_cells_only(_, _, _, _, _)
read_interior_table_cells_only(file, page, query, i, acc) ==
    IF i <= Len(page.cells)
    THEN LET p == get_page(file, page.cells[i].left_child_page - 1)
         IN  IF p.status # "ok" THEN [status |-> p.status, rows |-> acc]
             ELSE LET r == read_table(file, p.page, query)
                  IN  IF r.status # "ok"
                      THEN [status |-> r.status, rows |-> acc \o r.rows]
                      ELSE read_interior_table_cells_only(file, page, query, i + 1,
                                                          acc \o r.rows)
    ELSE [status |-> "ok", rows |-> acc]

read_interior_table_from(file, page, query, i, acc) ==
    IF i <= Len(page.cells)
    THEN LET p == get_page(file, page.cells[i].left_child_page - 1)
         IN  IF p.status # "ok" THEN [status |-> p.status, rows |-> acc]
             ELSE LET r == read_table(file, p.page, query)
                  IN  IF r.status # "ok"
                      THEN [status |-> r.status, rows |-> acc \o r.rows]
                      ELSE read_interior_table_from(file, page, query, i + 1,
                                                    acc \o r.rows)
    ELSE IF page.right_child_page_number.some
    THEN LET p == get_page(file, page.right_child_page_number.number - 1)
         IN  IF p.status # "ok" THEN [status |-> p.status, rows |-> acc]
             ELSE LET r == read_table(file, p.page, query)
                  IN  [status |-> r.status, rows |-> acc \o r.rows]
    ELSE [status |-> "ok", rows |-> acc]

read_interior_table(file, page, query) ==
    read_interior_table_from(file, page, query, 1, <<>>)

(* faulty variant of read_table: the kind of the page is not checked against
   the tree, an index page is walked like the table page of its level *)
read_table_any_kind(file, page, query) ==
    IF page.kind \in {"InteriorTable", "InteriorIndex"}
    THEN read_interior_table(file, page, query)
    ELSE read_leaf_table(page, query)

read_table(file, page, query) ==
    CASE page.kind = "InteriorTable" -> read_interior_table(file, page, query)
      [] page.kind = "LeafTable" -> read_leaf_table(page, query)
      [] OTHER -> [status |-> "MalformedTree", rows |-> <<>>]

----------------------------------------------------------------------------
(* Phase A: read_index / read_interior_index / read_leaf_index.
   A walk returns the rowids it pushed onto the results vector. *)

read_leaf_index(page, query) ==
    LET recs == [k \in 1..Len(page.cells) |-> Record_read_rowid(0, page.cells[k].payload)]
        Match(rec) == Format(rec.values[query.index_field + 1]) = query.filter.value
        hits == SelectSeq(recs, Match)
    IN  IF \E k \in 1..Len(hits) : ~is_number(hits[k].values[Len(hits[k].values)])
        THEN [status |-> "IdNotNumber", ids |-> <<>>]
        ELSE [status |-> "ok",
              ids |-> [k \in 1..Len(hits) |-> hits[k].values[Len(hits[k].values)].n]]

RECURSIVE read_index(_, _, _)
RECURSIVE read_interior_index_from(_, _, _, _, _)

read_interior_index_from(file, page, query, i, acc) ==
    IF i <= Len(page.cells)
    THEN LET cell == page.cells[i]
             rec == Record_read_rowid(0, cell.payload)
             value == rec.values[query.index_field + 1]
             id == rec.values[Len(rec.values)]
             isMatch == value.type = "Text" /\ query.filter.value = value.content
             pushed == IF isMatch THEN acc \o <<id.n>> ELSE acc
             p == get_page(file, cell.left_child_page - 1)
         IN  IF isMatch /\ ~is_number(id)
             THEN [status |-> "IdNotNumber", ids |-> acc]
             ELSE IF p.status # "ok" THEN [status |-> p.status, ids |-> pushed]
             ELSE LET r == read_index(file, p.page, query)
                  IN  IF r.status # "ok"
                      THEN [status |-> r.status, ids |-> pushed \o r.ids]
                      ELSE read_interior_index_from(file, page, query, i + 1,
                                                    pushed \o r.ids)
    ELSE IF page.right_child_page_number.some
    THEN LET p == get_page(file, page.right_child_page_number.number - 1)
         IN  IF p.status # "ok" THEN [status |-> p.status, ids |-> acc]
             ELSE LET r == read_index(file, p.page, query)
                  IN  [status |-> r.status, ids |-> acc \o r.ids]
    ELSE [status |-> "ok", ids |-> acc]

read_interior_index(file, page, query) ==
    read_interior_index_from(file, page, query, 1, <<>>)

read_index(file, page, query) ==
    CASE page.kind = "InteriorIndex" -> read_interior_index(file, page, query)
      [] page.kind = "LeafIndex" -> read_leaf_index(page, query)
      [] OTHER -> [status |-> "MalformedTree", ids |-> <<>>]

----------------------------------------------------------------------------
(* Slice helpers of the standard library used by Phase B *)

RECURSIVE Insert(_, _)
Insert(x, s) ==
    IF s = <<>> THEN <<x>>
    ELSE IF x <= Head(s) THEN <<x>> \o s
    ELSE <<Head(s)>> \o Insert(x, Tail(s))

RECURSIVE sort_unstable(_)
sort_unstable(s) == IF s = <<>> THEN <<>> ELSE Insert(Head(s), sort_unstable(Tail(s)))

(* ids.partition_point(|id| *id < key) on a sorted slice: the length of the
   prefix on which the predicate holds. *)
RECURSIVE partition_point(_, _)
partition_point(ids, key) ==
    IF ids = <<>> \/ ~(Head(ids) < key) THEN 0
    ELSE 1 + partition_point(Tail(ids), key)

binary_search_is_ok(ids, x) == \E k \in 1..Len(ids) : ids[k] = x

----------------------------------------------------------------------------
(* Phase B: read_ids_from_table / _interior_table / _leaf_table *)

read_ids_from_leaf_table(page, query, ids) ==
    LET recs == [k \in 1..Len(page.cells) |->
                    Record_read_rowid(page.cells[k].rowid, page.cells[k].payload)]
        Wanted(rec) == binary_search_is_ok(ids, rec.rowid)
    IN  [status |-> "ok",
         rows |-> Written(query.select_fields, SelectSeq(recs, Wanted))]

RECURSIVE read_ids_from_table(_, _, _, _)
RECURSIVE read_ids_from_interior_table_from(_, _, _, _, _, _)

read_ids_from_interior_table_from(file, page, query, ids, i, acc) ==
    IF i <= Len(page.cells)
    THEN LET cell == page.cells[i]
             at == partition_point(ids, cell.key)
             left_ids == SubSeq(ids, 1, at)
             right_ids == SubSeq(ids, at + 1, Len(ids))
             p == get_page(file, cell.left_child_page - 1)
         IN  IF left_ids = <<>>
             THEN read_ids_from_interior_table_from(file, page, query, right_ids,
                                                    i + 1, acc)
             ELSE IF p.status # "ok" THEN [status |-> p.status, rows |-> acc]
             ELSE LET r == read_ids_from_table(file, p.page, query, left_ids)
                  IN  IF r.status # "ok"
                      THEN [status |-> r.status, rows |-> acc \o r.rows]
                      ELSE read_ids_from_interior_table_from(
                               file, page, query, right_ids, i + 1, acc \o r.rows)
    ELSE IF Len(ids) = 0 THEN [status |-> "ok", rows |-> acc]
    ELSE IF page.right_child_page_number.some
    THEN LET p == get_page(file, page.right_child_page_number.number - 1)
         IN  IF p.status # "ok" THEN [status |-> p.status, rows |-> acc]
             ELSE LET r == read_ids_from_table(file, p.page, query, ids)
                  IN  [status |-> r.status, rows |-> acc \o r.rows]
    ELSE [status |-> "ok", rows |-> acc]

read_ids_from_interior_table(file, page, query, ids) ==
    read_ids_from_interior_table_from(file, page, query, ids, 1, <<>>)

read_ids_from_table(file, page, query, ids) ==
    CASE page.kind = "InteriorTable" ->
            read_ids_from_interior_table(file, page, query, ids)
      [] page.kind = "LeafTable" -> read_ids_from_leaf_table(page, query, ids)
      [] OTHER -> [status |-> "MalformedTree", rows |-> <<>>]

----------------------------------------------------------------------------
(* Database::select_fields *)

select_fields(store, file, stmt) ==
    LET found == find_table(store, stmt.table)
        table == found.table
        applicable == find_applicable_index(table, stmt.where_clause)
        index == applicable.index
        iquery == IndexQuery_new(table, stmt, index)
        query == Query_new(table, stmt)
        iroot == get_page(file, index.rootpage - 1)
        troot == get_page(file, table.rootpage - 1)
        phaseA == read_index(file, iroot.page, iquery)
        results == sort_unstable(phaseA.ids)
        phaseB == read_ids_from_table(file, troot.page, query, results)
        scan == read_table(file, troot.page, query)
    IN  IF ~found.some
        THEN [status |-> "TableNotFound", rows |-> <<>>, plan |-> "none"]
        ELSE IF applicable.some
        THEN IF iquery.panic THEN [status |-> "panic", rows |-> <<>>, plan |-> "index"]
             ELSE IF iroot.status # "ok"
             THEN [status |-> iroot.status, rows |-> <<>>, plan |-> "index"]
             ELSE IF phaseA.status # "ok"
             THEN [status |-> phaseA.status, rows |-> <<>>, plan |-> "index"]
             ELSE IF troot.status # "ok"
             THEN [status |-> troot.status, rows |-> <<>>, plan |-> "index"]
             ELSE [status |-> phaseB.status, rows |-> phaseB.rows, plan |-> "index"]
        ELSE IF query.panic THEN [status |-> "panic", rows |-> <<>>, plan |-> "scan"]
             ELSE IF troot.status # "ok"
             THEN [status |-> troot.status, rows |-> <<>>, plan |-> "scan"]
             ELSE [status |-> scan.status, rows |-> scan.rows, plan |-> "scan"]

----------------------------------------------------------------------------
(* The databases of the model: one table t(id INTEGER PRIMARY KEY, c) whose
   rows are laid out as a well-formed table B-tree rooted at page 2, and
   optionally an index on c laid out as a well-formed index B-tree. *)

TableName == <<"t">>

CVals == <<I8(7), Text(<<"a">>)>>

PkSlots == {Null, I8(9)}

Literals == {<<"a">>, <<"7">>}

TableRoot == 2

(* the cut points split n sorted entries into consecutive non-empty runs *)
Segments(n, cuts) ==
    LET b == SortedSeq(cuts \cup {n})
    IN  [j \in 1..Len(b) |-> <<IF j = 1 THEN 1 ELSE b[j - 1] + 1, b[j]>>]

SourceRows(rowmap, pkslot) ==
    LET ids == SortedSeq(DOMAIN rowmap)
    IN  [k \in 1..Len(ids) |->
            [rowid |-> ids[k], id |-> pkslot, c |-> CVals[rowmap[ids[k]]]]]

(* index order: by indexed value (integers before text), then by rowid *)
IndexEntries(rowmap) ==
    Flatten([v \in 1..Len(CVals) |->
        LET ids == SortedSeq({r \in DOMAIN rowmap : rowmap[r] = v})
        IN  [k \in 1..Len(ids) |-> <<CVals[v], I8(ids[k])>>]])

TableLeaf(rs, seg) ==
    [kind |-> "LeafTable",
     cells |-> [k \in 1..(seg[2] - seg[1] + 1) |->
                  [rowid |-> rs[seg[1] + k - 1].rowid,
                   payload |-> <<rs[seg[1] + k - 1].id, rs[seg[1] + k - 1].c>>]],
     right_child_page_number |-> NoChild]

(* key of an interior table cell: the largest rowid of its left child *)
TablePages(rs, cuts) ==
    LET segs == Segments(Len(rs), cuts)
        k == Len(segs)
    IN  IF cuts = {}
        THEN [p \in {TableRoot} |-> TableLeaf(rs, <<1, Len(rs)>>)]
        ELSE [p \in TableRoot..(TableRoot + k) |->
                IF p = TableRoot
                THEN [kind |-> "InteriorTable",
                      cells |-> [j \in 1..(k - 1) |->
                                   [left_child_page |-> TableRoot + j,
                                    key |-> rs[segs[j][2]].rowid]],
                      right_child_page_number |-> Child(TableRoot + k)]
                ELSE TableLeaf(rs, segs[p - TableRoot])]

IndexLeaf(es, lo, hi) ==
    [kind |-> "LeafIndex",
     cells |-> [k \in 1..(hi - lo + 1) |-> [payload |-> es[lo + k - 1]]],
     right_child_page_number |-> NoChild]

(* the entries at the positions in seps are the cells of the interior root *)
IndexPages(es, seps, root) ==
    LET sp == SortedSeq(seps)
        k == Len(sp)
        lo(j) == IF j = 1 THEN 1 ELSE sp[j - 1] + 1
    IN  IF seps = {}
        THEN [p \in {root} |-> IndexLeaf(es, 1, Len(es))]
        ELSE [p \in root..(root + k + 1) |->
                IF p = root
                THEN [kind |-> "InteriorIndex",
                      cells |-> [j \in 1..k |->
                                   [left_child_page |-> root + j,
                                    payload |-> es[sp[j]]]],
                      right_child_page_number |-> Child(root + k + 1)]
                ELSE IF p = root + k + 1 THEN IndexLeaf(es, lo(k + 1), Len(es))
                ELSE IndexLeaf(es, lo(p - root), sp[p - root] - 1)]

TableCuts(n) == IF n = 0 THEN {{}} ELSE SUBSET (1..(n - 1))

IndexSeps(n) ==
    {S \in SUBSET (2..(n - 1)) : \A x \in S : x + 1 \notin S}

IndexRoot(n, cuts) ==
    TableRoot + (IF cuts = {} THEN 1 ELSE Len(Segments(n, cuts)) + 1)

File(rowmap, cuts, pkslot, has_index, seps) ==
    LET rs == SourceRows(rowmap, pkslot)
        tp == TablePages(rs, cuts)
        iroot == IndexRoot(Len(rs), cuts)
        ip == IndexPages(IndexEntries(rowmap), seps, iroot)
    IN  IF has_index
        THEN [p \in (DOMAIN tp) \cup (DOMAIN ip) |->
                IF p \in DOMAIN tp THEN tp[p] ELSE ip[p]]
        ELSE tp

Store(rowmap, cuts, has_index) ==
    [tables |-> [name \in {TableName} |->
        [name |-> TableName,
         columns |-> <<[name |-> "id", is_primary_key |-> TRUE],
                       [name |-> "c", is_primary_key |-> FALSE]>>,
         indexes |-> IF has_index
                     THEN <<[name |-> <<"i">>, columns |-> <<"c">>,
                             table_name |-> TableName,
                             rootpage |-> IndexRoot(Cardinality(DOMAIN rowmap), cuts)]>>
                     ELSE <<>>,
         rootpage |-> TableRoot]]]

(* the table holds rowids 1..n for some n <= MaxRowid *)
RowMaps == UNION {[1..n -> 1..Len(CVals)] : n \in 0..MaxRowid}

FieldLists == {<<"id">>, <<"c", "id">>}

WhereClauses ==
    {NoWhere} \cup {Where("c", v) : v \in Literals} \cup {Where("id", Decimal(2))}

Statements ==
    [fields : FieldLists, table : {TableName}, where_clause : WhereClauses]

----------------------------------------------------------------------------
(* Values of the variables a specification does not use *)

NoVarint == [value |-> <<>>, bytes_read |-> 0, called |-> FALSE]
NoRecord == [status |-> "none", values |-> <<>>]
NoColumnType == [status |-> "none", kind |-> "", size |-> 0]

NoStatement == [fields |-> <<>>, table |-> <<>>, where_clause |-> NoWhere]

IdleWalk ==
    /\ pages = <<>> /\ schema = [tables |-> <<>>] /\ rows = <<>>
    /\ sql_statement = NoStatement
    /\ out = <<>> /\ emitted = <<>> /\ plan = "none" /\ result = "none"
    /\ impure = 0
    /\ wanted_ids = <<>> /\ page_loads = <<>>

IdleVarint == bytes = <<>> /\ varint = NoVarint
IdleRecord == payload = <<>> /\ column_count = 0 /\ record = NoRecord
IdleSerial == serial = 0 /\ column_type = NoColumnType

NoFile == [length |-> 0, bytes |-> <<>>, rows |-> {}]
NoDatabase == [status |-> "none"]
NoPage == [status |-> "none"]
NoCell == [status |-> "none"]
NoCommand == [status |-> "none"]
NoStore == [status |-> "none"]
NoListing == [status |-> "none", lines |-> <<>>]

IdleOpen ==
    db_file = NoFile /\ overflow_checks = FALSE /\ db = NoDatabase /\ loaded_page = NoPage
IdleCell == cell_kind = "" /\ cell_data = <<>> /\ cell_layout = <<>> /\ decoded_cell = NoCell
IdleSql == sql_input = <<>> /\ parsed = NoCommand
IdleSchema ==
    /\ schema_rows = <<>> /\ schema_store = NoStore
    /\ listing = NoListing /\ dbinfo = NoListing

----------------------------------------------------------------------------
(* Specification of the query path: open a database, run one SELECT *)

Init ==
    /\ \E rowmap \in RowMaps, pkslot \in PkSlots, has_index \in BOOLEAN :
         \E cuts \in TableCuts(Cardinality(DOMAIN rowmap)),
            seps \in IF has_index THEN IndexSeps(Cardinality(DOMAIN rowmap)) ELSE {{}} :
            /\ rows = SourceRows(rowmap, pkslot)
            /\ pages = File(rowmap, cuts, pkslot, has_index, seps)
            /\ schema = Store(rowmap, cuts, has_index)
    /\ sql_statement = NoStatement
    /\ out = <<>> /\ emitted = <<>> /\ plan = "none" /\ result = "none"
    /\ impure = 0
    /\ wanted_ids = <<>> /\ page_loads = <<>>
    /\ IdleVarint /\ IdleRecord /\ IdleSerial
    /\ IdleOpen /\ IdleCell /\ IdleSql /\ IdleSchema

(* one command: the parsed statement is handed to select_fields *)
SelectFields(stmt) ==
    /\ result = "none"
    /\ sql_statement' = stmt
    /\ LET r == select_fields(schema, pages, stmt)
       IN  /\ out' = out \o [k \in 1..Len(r.rows) |-> r.rows[k].line]
           /\ emitted' = emitted \o [k \in 1..Len(r.rows) |-> r.rows[k].rowid]
           /\ plan' = r.plan
           /\ result' = r.status
    /\ UNCHANGED <<pages, schema, rows, impure, wanted_ids, page_loads>>
    /\ UNCHANGED <<varintVars, recordVars, serialVars>>
    /\ UNCHANGED <<openVars, cellVars, sqlVars, schemaVars>>

Next == \E stmt \in Statements : SelectFields(stmt)

Spec == Init /\ [][Next]_vars

----------------------------------------------------------------------------
(* Properties of the query path *)

RECURSIVE Split(_, _)
Split(line, sep) ==
    IF \A k \in 1..Len(line) : line[k] # sep THEN <<line>>
    ELSE LET at == CHOOSE k \in 1..Len(line) :
                       line[k] = sep /\ \A j \in 1..(k - 1) : line[j] # sep
         IN  <<SubSeq(line, 1, at - 1)>> \o Split(SubSeq(line, at + 1, Len(line)), sep)

RowIds(rs) == [k \in 1..Len(rs) |-> rs[k].rowid]

Ascending(s) == \A i, j \in 1..Len(s) : i < j => s[i] < s[j]

TheTable == schema.tables[TableName]

IsPkAlias(name) ==
    \E i \in 1..Len(TheTable.columns) :
        TheTable.columns[i].name = name /\ TheTable.columns[i].is_primary_key

(* the source row's column c equals the literal of WHERE c = 'v' *)
ColumnEquals(row, w) == Format(row.c) = w.value

(* the filter as the scan applies it: the rendering of the value stored at
   the WHERE column's position equals the literal *)
StoredValue(row, name) == IF name = "id" THEN row.id ELSE row.c
PassesFilter(row) ==
    \/ ~sql_statement.where_clause.some
    \/ Format(StoredValue(row, sql_statement.where_clause.field))
          = sql_statement.where_clause.value

(* C1: the index-assisted lookup emits every row whose column c equals the
   literal exactly once, and no other row. *)
IndexLookupEmitsEachMatchOnce ==
    plan = "index" =>
        /\ result = "ok"
        /\ \A k \in 1..Len(rows) :
              Count(emitted, rows[k].rowid)
                 = IF ColumnEquals(rows[k], sql_statement.where_clause) THEN 1 ELSE 0

(* C2: the index plan writes what the scan plan writes on the same database
   with the same filter, in ascending rowid order. *)
IndexPlanEqualsScanPlan ==
    plan = "index" =>
        LET table == find_table(schema, sql_statement.table).table
            scan == read_table(pages, get_page(pages, table.rootpage - 1).page,
                               Query_new(table, sql_statement))
        IN  /\ result = scan.status
            /\ out = [k \in 1..Len(scan.rows) |-> scan.rows[k].line]
            /\ Ascending(emitted)

(* C3: a full table scan emits the rows that pass the filter, each once, in
   B-tree order (ascending rowid in a well-formed tree); without a WHERE
   clause it emits every row. *)
ScanEmitsPassingRowsInOrder ==
    plan = "scan" =>
        /\ result = "ok"
        /\ emitted = RowIds(SelectSeq(rows, PassesFilter))
        /\ (~sql_statement.where_clause.some => emitted = RowIds(rows))

ScanWitness ==
    /\ plan = "scan" /\ result = "ok"
    /\ pages[TableRoot].kind = "InteriorTable"
    /\ Len(pages[TableRoot].cells) >= 2
    /\ sql_statement.where_clause.some
    /\ Len(emitted) >= 2 /\ Len(emitted) < Len(rows)

(* C4: in every written line, a selected column that aliases the rowid is
   the decimal rendering of the cell's rowid, whatever the record stores in
   that column's slot. *)
PkAliasRendersRowid ==
    result = "ok" =>
        \A k \in 1..Len(out) : \A j \in 1..Len(sql_statement.fields) :
            IsPkAlias(sql_statement.fields[j]) =>
                Split(out[k], "|")[j] = Decimal(emitted[k])

PkAliasWitness ==
    /\ plan = "index" /\ result = "ok"
    /\ sql_statement.fields = <<"c", "id">>
    /\ Len(out) >= 2
    /\ \A k \in 1..Len(rows) : rows[k].id = I8(9)

----------------------------------------------------------------------------
(* 64-bit integers of the byte-level decoders: 64 bits, most significant
   first; i64 is the two's-complement reading of the same bits. *)

Pow2(k) == 2 ^ k

Bits(k, w) == [i \in 1..w |-> (k \div Pow2(w - i)) % 2]

Zeros(w) == [i \in 1..w |-> 0]

Shl(v, k) == [i \in 1..64 |-> IF i + k <= 64 THEN v[i + k] ELSE 0]

BitOr(a, b) == [i \in 1..64 |-> IF a[i] = 1 \/ b[i] = 1 THEN 1 ELSE 0]

U8AsI64(byte) == Zeros(56) \o Bits(byte, 8)

MinusOne64 == [i \in 1..64 |-> 1]

----------------------------------------------------------------------------
(* varint::read *)

(* faulty variant of read_from: the continuation bit is not masked off
   before the OR (as read_var_int of main.rs does) *)
RECURSIVE read_from_unmasked(_, _, _, _)
read_from_unmasked(slice, i, acc, bytes_read) ==
    IF i >= Len(slice) \/ i >= 9
    THEN [value |-> acc, bytes_read |-> bytes_read]
    ELSE LET byte == slice[i + 1]
         IN  IF i = 8
             THEN [value |-> BitOr(Shl(acc, 8), U8AsI64(byte)),
                   bytes_read |-> bytes_read + 1]
             ELSE LET v == BitOr(Shl(acc, 7), U8AsI64(byte))
                  IN  IF byte < 128
                      THEN [value |-> v, bytes_read |-> bytes_read + 1]
                      ELSE read_from_unmasked(slice, i + 1, v, bytes_read + 1)

(* the loop of read from iteration i on: bytes.iter().enumerate().take(9) *)
RECURSIVE read_from(_, _, _, _)
read_from(slice, i, acc, bytes_read) ==
    IF i >= Len(slice) \/ i >= 9
    THEN [value |-> acc, bytes_read |-> bytes_read]
    ELSE LET byte == slice[i + 1]
         IN  IF i = 8
             THEN [value |-> BitOr(Shl(acc, 8), U8AsI64(byte)),
                   bytes_read |-> bytes_read + 1]
             ELSE LET v == BitOr(Shl(acc, 7), U8AsI64(byte % 128))
                  IN  IF byte < 128
                      THEN [value |-> v, bytes_read |-> bytes_read + 1]
                      ELSE read_from(slice, i + 1, v, bytes_read + 1)

read(slice) == read_from(slice, 0, Zeros(64), 0)

----------------------------------------------------------------------------
(* Specification of the varint codec: a slice is drawn, read is applied *)

ContBytes == {129, 255}
TailBytes == {0, 127, 255}

SeqsUpTo(S, n) == UNION {[1..k -> S] : k \in 0..n}

Slices ==
    {c \o t : c \in SeqsUpTo(ContBytes, MaxCont),
              t \in SeqsUpTo(TailBytes, MaxTail)}

InitVarint ==
    /\ bytes \in Slices
    /\ varint = NoVarint
    /\ IdleWalk /\ IdleRecord /\ IdleSerial
    /\ IdleOpen /\ IdleCell /\ IdleSql /\ IdleSchema

VarintRead ==
    /\ ~varint.called
    /\ LET r == read(bytes)
       IN  varint' = [value |-> r.value, bytes_read |-> r.bytes_read, called |-> TRUE]
    /\ UNCHANGED <<bytes, walkVars, recordVars, serialVars>>
    /\ UNCHANGED <<openVars, cellVars, sqlVars, schemaVars>>

NextVarint == VarintRead

SpecVarint == InitVarint /\ [][NextVarint]_vars

(* Properties of the varint codec *)

Min(a, b) == IF a <= b THEN a ELSE b

HighBit(b) == b >= 128

(* the bytes of the encoding that heads a slice: up to and including the
   first of the first eight bytes with a clear high bit, else nine bytes;
   all of a slice that ends earlier *)
EncodingLen(slice) ==
    LET stops == {i \in 1..Min(Len(slice), 8) : ~HighBit(slice[i])}
    IN  IF stops # {} THEN CHOOSE i \in stops : \A j \in stops : i <= j
        ELSE Min(Len(slice), 9)

EncodingComplete(slice) ==
    \/ \E i \in 1..Min(Len(slice), 8) : ~HighBit(slice[i])
    \/ Len(slice) >= 9

(* C5: a returned (v, n) has 1 <= n <= 9, n the length of the encoding, and
   n = 9 iff the first eight bytes all carry the high bit; a slice that ends
   before its encoding is complete is never answered with a (v, n). *)
VarintLengthLaw ==
    varint.called =>
        /\ EncodingComplete(bytes)
        /\ 1 <= varint.bytes_read /\ varint.bytes_read <= 9
        /\ varint.bytes_read = EncodingLen(bytes)
        /\ (varint.bytes_read = 9 <=>
               (Len(bytes) >= 8 /\ \A i \in 1..8 : HighBit(bytes[i])))

PadLeft64(b) == Zeros(64 - Len(b)) \o b

(* C6: the value is the big-endian concatenation of the low seven bits of
   each of the first eight bytes of the encoding and of all eight bits of a
   ninth, read as a two's-complement 64-bit integer; bytes behind the
   encoding do not matter.  [0x81, 0x00] is 128 and nine 0xff bytes are -1. *)
VarintValueIsConcatenation ==
    varint.called =>
        /\ varint.value =
              PadLeft64(Flatten([i \in 1..EncodingLen(bytes) |->
                            IF i = 9 THEN Bits(bytes[i], 8)
                            ELSE Bits(bytes[i] % 128, 7)]))
        /\ (Len(bytes) >= 2 /\ SubSeq(bytes, 1, 2) = <<129, 0>>
               => varint.value = Zeros(56) \o Bits(128, 8))
        /\ (Len(bytes) >= 9 /\ (\A i \in 1..9 : bytes[i] = 255)
               => varint.value = MinusOne64)

VarintWitness ==
    /\ varint.called
    /\ Len(bytes) = 10 /\ bytes[10] = 127
    /\ varint.bytes_read = 9
    /\ varint.value = MinusOne64

----------------------------------------------------------------------------
(* impl From<u64> for ColumnType *)

ColumnType(kind, size) == [status |-> "ok", kind |-> kind, size |-> size]

ColumnType_from(value) ==
    CASE value = 0 -> ColumnType("Null", 0)
      [] value = 1 -> ColumnType("I8", 0)
      [] value = 2 -> ColumnType("I16", 0)
      [] value = 3 -> ColumnType("I24", 0)
      [] value = 4 -> ColumnType("I32", 0)
      [] value = 5 -> ColumnType("I48", 0)
      [] value = 6 -> ColumnType("I64", 0)
      [] value = 7 -> ColumnType("F64", 0)
      [] value = 8 -> ColumnType("Zero", 0)
      [] value = 9 -> ColumnType("One", 0)
      [] value > 12 /\ value % 2 = 0 -> ColumnType("Blob", (value - 12) \div 2)
      [] value > 13 /\ value % 2 = 1 -> ColumnType("Text", (value - 13) \div 2)
      [] OTHER -> [status |-> "panic", kind |-> "", size |-> 0]

(* Specification of the serial-type decoder *)

InitSerial ==
    /\ serial \in 0..MaxSerial
    /\ column_type = NoColumnType
    /\ IdleWalk /\ IdleVarint /\ IdleRecord
    /\ IdleOpen /\ IdleCell /\ IdleSql /\ IdleSchema

DecodeSerial ==
    /\ column_type.status = "none"
    /\ column_type' = ColumnType_from(serial)
    /\ UNCHANGED <<serial, walkVars, varintVars, recordVars>>
    /\ UNCHANGED <<openVars, cellVars, sqlVars, schemaVars>>

NextSerial == DecodeSerial

SpecSerial == InitSerial /\ [][NextSerial]_vars

(* the serial-type table of the record format *)
SerialTable(k) ==
    CASE k = 0 -> <<"Null", 0>>
      [] k \in 1..6 -> <<<<"I8", "I16", "I24", "I32", "I48", "I64">>[k], 0>>
      [] k = 7 -> <<"F64", 0>>
      [] k = 8 -> <<"Zero", 0>>
      [] k = 9 -> <<"One", 0>>
      [] k >= 12 /\ k % 2 = 0 -> <<"Blob", (k - 12) \div 2>>
      [] k >= 13 /\ k % 2 = 1 -> <<"Text", (k - 13) \div 2>>

(* C8: every serial type other than 10 and 11 decodes as the table states;
   12 is the empty blob and 13 the empty text. *)
SerialTypesFollowTable ==
    (column_type.status # "none" /\ serial \notin {10, 11}) =>
        /\ column_type.status = "ok"
        /\ <<column_type.kind, column_type.size>> = SerialTable(serial)

----------------------------------------------------------------------------
(* Record::read(payload, column_count) of record.rs *)

RECURSIVE BitsToNat(_)
BitsToNat(b) ==
    IF b = <<>> THEN 0
    ELSE 2 * BitsToNat(SubSeq(b, 1, Len(b) - 1)) + b[Len(b)]

(* `column as u64`: a value of 2^30 or more is kept as 2^30 plus its parity;
   it names a blob or text far longer than any payload of the model *)
HugeSerial == Pow2(30)

AsU64(v) ==
    IF \E i \in 1..34 : v[i] = 1 THEN HugeSerial + v[64]
    ELSE BitsToNat(SubSeq(v, 35, 64))

Decoded(type, value, content) == [type |-> type, value |-> value, content |-> content]

i64_from_be_bytes(arr) == Flatten([i \in 1..8 |-> Bits(arr[i], 8)])

(* read_n_bytes_as_i64!: the n bytes are copied to the tail of a zeroed
   8-byte array *)
read_n_bytes_as_i64(slice, cursor, n) ==
    i64_from_be_bytes([i \in 1..8 |->
        IF i <= 8 - n THEN 0 ELSE slice[cursor + i - (8 - n)]])

IntWidth(kind) ==
    CASE kind = "I8" -> 1 [] kind = "I16" -> 2 [] kind = "I24" -> 3
      [] kind = "I32" -> 4 [] kind = "I48" -> 6 [] kind = "I64" -> 8

IsIntKind(kind) == kind \in {"I8", "I16", "I24", "I32", "I48", "I64"}

(* bytes a column of this type takes from the payload *)
DiskWidth(column) ==
    CASE IsIntKind(column.kind) -> IntWidth(column.kind)
      [] column.kind = "F64" -> 8
      [] column.kind \in {"Blob", "Text"} -> column.size
      [] OTHER -> 0

(* first loop: column_count serial types are read behind the header size *)
RECURSIVE read_columns(_, _, _, _)
read_columns(slice, cursor, remaining, columns) ==
    IF remaining = 0
    THEN [status |-> "ok", cursor |-> cursor, columns |-> columns]
    ELSE LET r == read(SubSeq(slice, cursor + 1, Len(slice)))
             column == ColumnType_from(AsU64(r.value))
         IN  IF column.status = "panic"
             THEN [status |-> "panic", cursor |-> cursor, columns |-> columns]
             ELSE read_columns(slice, cursor + r.bytes_read, remaining - 1,
                               Append(columns, column))

(* second loop: one value per column type; a slice index past the end of the
   payload panics *)
RECURSIVE read_values(_, _, _, _, _)
read_values(slice, cursor, columns, j, values) ==
    IF j > Len(columns) THEN [status |-> "ok", values |-> values]
    ELSE LET column == columns[j]
             w == DiskWidth(column)
             value ==
                 CASE IsIntKind(column.kind) ->
                        Decoded(column.kind, read_n_bytes_as_i64(slice, cursor, w), <<>>)
                   [] column.kind = "F64" ->
                        Decoded("F64",
                                i64_from_be_bytes(SubSeq(slice, cursor + 1, cursor + 8)),
                                <<>>)
                   [] column.kind \in {"Blob", "Text"} ->
                        Decoded(column.kind, <<>>, SubSeq(slice, cursor + 1, cursor + w))
                   [] OTHER -> Decoded(column.kind, <<>>, <<>>)
         IN  IF cursor + w > Len(slice)
             THEN [status |-> "panic", values |-> <<>>]
             ELSE read_values(slice, cursor + w, columns, j + 1, Append(values, value))

Record_read(slice, count) ==
    LET header == read(slice)
        cols == read_columns(slice, header.bytes_read, count, <<>>)
    IN  IF cols.status = "panic" THEN [status |-> "panic", values |-> <<>>]
        ELSE read_values(slice, cols.cursor, cols.columns, 1, <<>>)

----------------------------------------------------------------------------
(* Specification of the record decoder: a payload and a column count are
   drawn, Record::read is applied *)

SerialSamples == {0, 1, 2, 3, 4, 5, 6, 7, 8, 9, 10, 12, 13, 14, 15}
LeadBytes == {1, 128, 255}
FillBytes == {0, 255}

Bodies ==
    {<<>>} \cup {<<lead>> \o [i \in 1..k |-> fill] :
                    lead \in LeadBytes, fill \in FillBytes, k \in 0..(MaxBody - 1)}

(* header size, serial types, body; the header size counts itself *)
Payloads ==
    {<<>>} \cup {<<Len(st) + 1>> \o st \o body :
                    st \in SeqsUpTo(SerialSamples, MaxCols), body \in Bodies}

InitRecord ==
    /\ payload \in Payloads
    /\ column_count \in 0..(MaxCols + 1)
    /\ record = NoRecord
    /\ IdleWalk /\ IdleVarint /\ IdleSerial
    /\ IdleOpen /\ IdleCell /\ IdleSql /\ IdleSchema

RecordRead ==
    /\ record.status = "none"
    /\ record' = Record_read(payload, column_count)
    /\ UNCHANGED <<payload, column_count, walkVars, varintVars, serialVars>>
    /\ UNCHANGED <<openVars, cellVars, sqlVars, schemaVars>>

NextRecord == RecordRead

SpecRecord == InitRecord /\ [][NextRecord]_vars

(* Properties of the record decoder *)

(* the header as the record format lays it out *)
HeaderSize(slice) == AsU64(read(slice).value)

RECURSIVE CountVarints(_)
CountVarints(slice) ==
    IF slice = <<>> THEN 0
    ELSE 1 + CountVarints(SubSeq(slice, read(slice).bytes_read + 1, Len(slice)))

HeaderSerialCount(slice) ==
    CountVarints(SubSeq(slice, read(slice).bytes_read + 1,
                        Min(HeaderSize(slice), Len(slice))))

(* serial type of column j and the offset of its value, for a header of
   one-byte varints *)
SerialOf(slice, j) == slice[1 + j]

WidthOfSerial(k) ==
    CASE k \in 1..6 -> <<1, 2, 3, 4, 6, 8>>[k]
      [] k = 7 -> 8
      [] k >= 12 -> (k - 12) \div 2
      [] OTHER -> 0

RECURSIVE ValueOffset(_, _)
ValueOffset(slice, j) ==
    IF j = 1 THEN slice[1]
    ELSE ValueOffset(slice, j - 1) + WidthOfSerial(SerialOf(slice, j - 1))

(* two's-complement reading of w big-endian bytes, widened to 64 bits *)
SignExtend(bs) ==
    LET b == Flatten([i \in 1..Len(bs) |-> Bits(bs[i], 8)])
    IN  [i \in 1..(64 - Len(b)) |-> b[1]] \o b

(* C7: an integer column of serial type 1..6 decodes to the sign-extended
   big-endian two's-complement value of its bytes. *)
IntegersAreSignExtended ==
    (record.status = "ok" /\ column_count = HeaderSerialCount(payload)) =>
        \A j \in 1..Len(record.values) :
            SerialOf(payload, j) \in 1..6 =>
                record.values[j].value =
                    SignExtend(SubSeq(payload, ValueOffset(payload, j) + 1,
                                      ValueOffset(payload, j)
                                         + WidthOfSerial(SerialOf(payload, j))))

RECURSIVE SumWidths(_)
SumWidths(values) ==
    IF values = <<>> THEN 0
    ELSE (CASE IsIntKind(Head(values).type) -> IntWidth(Head(values).type)
            [] Head(values).type = "F64" -> 8
            [] OTHER -> Len(Head(values).content))
         + SumWidths(Tail(values))

(* C9: a decoded record has as many values as its header holds serial types,
   and their on-disk widths add up to the payload length minus the header
   size. *)
RecordLengthLaw ==
    record.status = "ok" =>
        /\ Len(record.values) = HeaderSerialCount(payload)
        /\ SumWidths(record.values) = Len(payload) - HeaderSize(payload)

(* C10: decoding never aborts; a bad serial type or a value that runs past
   the payload is answered with an error value.  Stated for the calls whose
   column count is the header's, so that only the payload is at fault. *)
RecordReadNeverPanics ==
    column_count = HeaderSerialCount(payload) =>
        record.status \in {"none", "ok", "MalformedRecord"}

----------------------------------------------------------------------------
(* The database file as bytes: Database::open, Database::get_page and
   Page::read_with_offset.

   A file is its length, the bytes that are not zero (offset -> byte) and the
   offsets at which a well-formed sqlite_schema row cell is stored. *)

FileByte(f, off) == IF off \in DOMAIN f.bytes THEN f.bytes[off] ELSE 0

u16_from_be_bytes(b1, b2) == b1 * 256 + b2

u32_from_be_bytes(b1, b2, b3, b4) == ((b1 * 256 + b2) * 256 + b3) * 256 + b4

MAGIC_HEADER == <<83, 81, 76, 105, 116, 101, 32, 102, 111, 114, 109, 97, 116, 32, 51, 0>>

(* a - b on u16: a panic when overflow checks are compiled in, a wrap when
   they are not *)
SubU16(a, b, checks) ==
    IF a >= b THEN [panic |-> FALSE, value |-> a - b]
    ELSE IF checks THEN [panic |-> TRUE, value |-> 0]
    ELSE [panic |-> FALSE, value |-> a - b + 65536]

(* file.read_exact(&mut buf) with the file position at pos: the buffer is the
   window [pos, pos + n) of the file *)
read_exact(f, pos, n) ==
    IF pos + n <= f.length THEN [status |-> "ok", start |-> pos, len |-> n]
    ELSE [status |-> "Io", start |-> pos, len |-> 0]

BufByte(f, buf, i) == FileByte(f, buf.start + i)

DatabaseHeader_read(f) ==
    LET header == read_exact(f, 0, 100)
    IN  IF header.status # "ok" THEN [status |-> "Io", page_size |-> 0]
        ELSE IF [i \in 1..16 |-> BufByte(f, header, i - 1)] # MAGIC_HEADER
        THEN [status |-> "InvalidMagic", page_size |-> 0]
        ELSE [status |-> "ok",
              page_size |-> u16_from_be_bytes(BufByte(f, header, 16),
                                              BufByte(f, header, 17))]

PageKind_try_from(value) ==
    CASE value = 2 -> [ok |-> TRUE, kind |-> "InteriorIndex"]
      [] value = 5 -> [ok |-> TRUE, kind |-> "InteriorTable"]
      [] value = 10 -> [ok |-> TRUE, kind |-> "LeafIndex"]
      [] value = 13 -> [ok |-> TRUE, kind |-> "LeafTable"]
      [] OTHER -> [ok |-> FALSE, kind |-> ""]

is_interior(k) == k \in {"InteriorIndex", "InteriorTable"}

FailedPage(status) ==
    [status |-> status, kind |-> "", number_of_cells |-> 0,
     right_child_page_number |-> 0, cell_pointers |-> <<>>,
     data |-> [start |-> 0, len |-> 0]]

(* Page::read_with_offset with the file position at pos *)
read_with_offset(f, pos, page_size, offset, checks) ==
    LET buf == read_exact(f, pos, page_size)
        k == PageKind_try_from(BufByte(f, buf, 0))
        number_of_cells == u16_from_be_bytes(BufByte(f, buf, 3), BufByte(f, buf, 4))
        header_size == IF is_interior(k.kind) THEN 12 ELSE 8
        right == IF is_interior(k.kind)
                 THEN u32_from_be_bytes(BufByte(f, buf, 8), BufByte(f, buf, 9),
                                        BufByte(f, buf, 10), BufByte(f, buf, 11))
                 ELSE 0
        chunks == (page_size - header_size) \div 2
        taken == IF number_of_cells < chunks THEN number_of_cells ELSE chunks
        stored == [i \in 1..taken |->
                     u16_from_be_bytes(BufByte(f, buf, header_size + 2 * (i - 1)),
                                       BufByte(f, buf, header_size + 2 * (i - 1) + 1))]
        moved == [i \in 1..taken |-> SubU16(stored[i], offset, checks)]
    IN  IF buf.status # "ok" THEN FailedPage("Io")
        ELSE IF page_size = 0 THEN FailedPage("panic")
        ELSE IF ~k.ok THEN FailedPage("MalformedPage")
        ELSE IF page_size < header_size THEN FailedPage("panic")
        ELSE IF \E i \in 1..taken : moved[i].panic THEN FailedPage("panic")
        ELSE [status |-> "ok", kind |-> k.kind,
              number_of_cells |-> number_of_cells,
              right_child_page_number |-> right,
              cell_pointers |-> [i \in 1..taken |-> moved[i].value],
              data |-> [start |-> buf.start, len |-> buf.len]]

(* SQLiteSchema::read: page.cells() slices the buffer at each pointer and
   every cell is turned into a row; the first cell that fails ends the read.
   The bytes of a row cell are not modelled: the file names the offsets that
   hold one, and a cell read from zero bytes has an empty record. *)
RECURSIVE SQLiteSchema_read_from(_, _, _, _)
SQLiteSchema_read_from(f, pg, i, n) ==
    IF i > Len(pg.cell_pointers) THEN [status |-> "ok", rows |-> n]
    ELSE LET pointer == pg.cell_pointers[i]
             slice_len == pg.data.len - pointer
         IN  IF pointer > pg.data.len THEN [status |-> "panic", rows |-> n]
             ELSE IF is_interior(pg.kind) /\ slice_len < 4
             THEN [status |-> "panic", rows |-> n]
             ELSE IF pg.kind # "LeafTable" THEN [status |-> "MalformedCell", rows |-> n]
             ELSE IF pg.data.start + pointer \notin f.rows
             THEN [status |-> "MalformedSchema", rows |-> n]
             ELSE SQLiteSchema_read_from(f, pg, i + 1, n + 1)

SQLiteSchema_read(f, pg) == SQLiteSchema_read_from(f, pg, 1, 0)

(* Database::open; schema_page is the page 1 that SchemaStore::read consumed *)
Database_open(f, checks) ==
    LET header == DatabaseHeader_read(f)
        size == SubU16(header.page_size, 100, checks)
        pg == read_with_offset(f, 100, size.value, 100, checks)
        rs == SQLiteSchema_read(f, pg)
    IN  IF header.status # "ok"
        THEN [status |-> header.status, page_size |-> 0,
              schema_page |-> FailedPage("none"), rows |-> 0]
        ELSE IF size.panic
        THEN [status |-> "panic", page_size |-> header.page_size,
              schema_page |-> FailedPage("none"), rows |-> 0]
        ELSE IF pg.status # "ok"
        THEN [status |-> pg.status, page_size |-> header.page_size,
              schema_page |-> pg, rows |-> 0]
        ELSE [status |-> rs.status, page_size |-> header.page_size,
              schema_page |-> pg, rows |-> rs.rows]

(* Database::get_page(number) on the bytes of the file *)
Database_get_page(f, page_size, number, checks) ==
    read_with_offset(f, number * page_size, page_size, 0, checks)

----------------------------------------------------------------------------
(* Specification of the page reader: a database file is drawn, it is opened
   and its pages are fetched *)

MaxPages == 2       \* pages in a generated file
MaxCells == 2       \* cell pointers on a generated page

PageSizeExps == 9..16

(* the 16-bit field at offset 16 holds the page size; 1 stands for 65536 *)
PageSizeField(ps) == IF ps = 65536 THEN 1 ELSE ps

(* byte of kind of the pages behind page 1; 0 is not a page kind *)
KindBytes == {13, 5, 0}

(* offset of the row cell a generated page stores *)
RowOffset(ps) == ps - 20

PointerSamples(ps) == {50, RowOffset(ps), Min(ps, 65535), 65535}

HeaderLen(kb) == IF kb \in {2, 5} THEN 12 ELSE 8

(* the bytes of one page whose B-tree header starts at offset base *)
PageBytes(base, kb, ptrs) ==
    {<<base, kb>>, <<base + 4, Len(ptrs)>>}
    \cup {<<base + HeaderLen(kb) + 2 * (i - 1), ptrs[i] \div 256>> : i \in 1..Len(ptrs)}
    \cup {<<base + HeaderLen(kb) + 2 * (i - 1) + 1, ptrs[i] % 256>> : i \in 1..Len(ptrs)}

DatabaseFile(ps, n, kb, ptrs1, ptrsN) ==
    LET field == PageSizeField(ps)
        pairs == {<<i - 1, MAGIC_HEADER[i]>> : i \in 1..16}
                 \cup {<<16, field \div 256>>, <<17, field % 256>>}
                 \cup PageBytes(100, 13, ptrs1)
                 \cup UNION {PageBytes((k - 1) * ps, kb, ptrsN) : k \in 2..n}
        set == {pr \in pairs : pr[2] # 0}
    IN  [length |-> n * ps,
         bytes |-> [o \in {pr[1] : pr \in set} |->
                      (CHOOSE pr \in set : pr[1] = o)[2]],
         rows |-> {RowOffset(ps)},
         page_size |-> ps,
         page_count |-> n,
         pointers1 |-> ptrs1,
         pointersN |-> ptrsN]

InitOpen ==
    /\ \E e \in PageSizeExps, n \in 1..MaxPages, kb \in KindBytes, first \in BOOLEAN :
         \E ptrs \in SeqsUpTo(PointerSamples(Pow2(e)), MaxCells) :
            db_file = IF first
                      THEN DatabaseFile(Pow2(e), n, kb, ptrs, <<RowOffset(Pow2(e))>>)
                      ELSE DatabaseFile(Pow2(e), n, kb, <<RowOffset(Pow2(e))>>, ptrs)
    /\ overflow_checks \in BOOLEAN
    /\ db = NoDatabase
    /\ loaded_page = NoPage
    /\ IdleWalk /\ IdleVarint /\ IdleRecord /\ IdleSerial
    /\ IdleCell /\ IdleSql /\ IdleSchema

Open ==
    /\ db.status = "none"
    /\ db' = Database_open(db_file, overflow_checks)
    /\ UNCHANGED <<db_file, overflow_checks, loaded_page>>
    /\ UNCHANGED <<walkVars, varintVars, recordVars, serialVars>>
    /\ UNCHANGED <<cellVars, sqlVars, schemaVars>>

(* a caller fetches page n of the file: get_page(n - 1) *)
GetPage(n) ==
    /\ db.status = "ok"
    /\ n <= db_file.page_count
    /\ loaded_page.status = "none"
    /\ loaded_page' = [page |-> Database_get_page(db_file, db.page_size, n - 1,
                                                   overflow_checks),
                       number |-> n, status |-> "done"]
    /\ UNCHANGED <<db_file, overflow_checks, db>>
    /\ UNCHANGED <<walkVars, varintVars, recordVars, serialVars>>
    /\ UNCHANGED <<cellVars, sqlVars, schemaVars>>

NextOpen == Open \/ \E n \in 2..MaxPages : GetPage(n)

SpecOpen == InitOpen /\ [][NextOpen]_vars

(* Properties of the page reader *)

RealPageSize == db_file.page_size

(* the page size field can hold the page size of the file *)
FieldHoldsPageSize == PageSizeField(RealPageSize) = RealPageSize

PointersIn(ptrs, lo, hi) ==
    \A i \in 1..Len(ptrs) : lo <= ptrs[i] /\ ptrs[i] < hi

(* every stored pointer is the offset of a cell of its page *)
WellFormedFile ==
    /\ \A i \in 1..Len(db_file.pointers1) :
          db_file.pointers1[i] = RowOffset(RealPageSize)
    /\ \A i \in 1..Len(db_file.pointersN) :
          db_file.pointersN[i] = RowOffset(RealPageSize)

PagePointersValid(pg) ==
    \A i \in 1..Len(pg.cell_pointers) :
        0 <= pg.cell_pointers[i] /\ pg.cell_pointers[i] < pg.data.len

(* C11: every cell pointer of a loaded page indexes the page's buffer; a
   stored pointer outside the page (or below 100 on page 1) makes the read
   fail with MalformedPage, with no underflow and no out-of-range index. *)
CellPointersAreInRange ==
    FieldHoldsPageSize =>
        /\ db.status # "none" =>
             /\ db.status # "panic"
             /\ db.schema_page.status = "ok" => PagePointersValid(db.schema_page)
             /\ ~PointersIn(db_file.pointers1, 100, RealPageSize) =>
                  db.status = "MalformedPage"
        /\ (loaded_page.status # "none" /\ loaded_page.page.status # "MalformedPage") =>
             /\ loaded_page.page.status # "panic"
             /\ loaded_page.page.status = "ok" => PagePointersValid(loaded_page.page)
             /\ ~PointersIn(db_file.pointersN, 0, RealPageSize) =>
                  loaded_page.page.status = "MalformedPage"

(* C12: for every page size from 512 to 65536 that is a power of two, open
   takes the real page size from the header, reads page 1 into a buffer of
   page_size - 100 bytes and get_page reads page N at (N-1) * page_size. *)
OpenHonoursEveryPageSize ==
    WellFormedFile =>
        /\ db.status # "none" =>
             /\ db.status = "ok"
             /\ db.page_size = RealPageSize
             /\ db.schema_page.data.len = RealPageSize - 100
        /\ loaded_page.status # "none" =>
             /\ loaded_page.page.status \in {"ok", "MalformedPage"}
             /\ loaded_page.page.status = "ok" =>
                  /\ loaded_page.page.data.start = (loaded_page.number - 1) * RealPageSize
                  /\ loaded_page.page.data.len = RealPageSize

----------------------------------------------------------------------------
(* Specification of the query path over a tree that is not pure: one page of
   the file is replaced by a page of the other tree's kinds *)

MaxImpureRowid == 3     \* rows of the table whose file gets the foreign page

(* a leaf page of a foreign kind holds one cell that every cell reader can
   decode; an interior page of a foreign kind has no children *)
ForeignPage(k) ==
    [kind |-> k,
     cells |-> IF k \in {"LeafTable", "LeafIndex"}
               THEN <<[rowid |-> MaxImpureRowid + 9,
                       payload |-> <<Text(<<"a">>), I8(MaxImpureRowid + 9)>>]>>
               ELSE <<>>,
     right_child_page_number |-> NoChild]

TableKinds == {"InteriorTable", "LeafTable"}
IndexKinds == {"InteriorIndex", "LeafIndex"}

ImpureRowMaps == UNION {[1..n -> 1..Len(CVals)] : n \in 1..MaxImpureRowid}

InitImpure ==
    /\ \E rowmap \in ImpureRowMaps :
         \E cuts \in TableCuts(Cardinality(DOMAIN rowmap)),
            seps \in IndexSeps(Cardinality(DOMAIN rowmap)) :
            LET f == File(rowmap, cuts, Null, TRUE, seps)
                iroot == IndexRoot(Cardinality(DOMAIN rowmap), cuts)
            IN  \E p \in DOMAIN f :
                  \E k \in IF p < iroot THEN IndexKinds ELSE TableKinds :
                     /\ rows = SourceRows(rowmap, Null)
                     /\ pages = [f EXCEPT ![p] = ForeignPage(k)]
                     /\ schema = Store(rowmap, cuts, TRUE)
                     /\ impure = p
                     /\ wanted_ids = <<>> /\ page_loads = <<>>
    /\ sql_statement = NoStatement
    /\ out = <<>> /\ emitted = <<>> /\ plan = "none" /\ result = "none"
    /\ IdleVarint /\ IdleRecord /\ IdleSerial
    /\ IdleOpen /\ IdleCell /\ IdleSql /\ IdleSchema

SpecImpure == InitImpure /\ [][Next]_vars

(* Properties of the walks over an impure tree *)

InTableTree(p) == p >= TableRoot /\ p < TheTable.indexes[1].rootpage

(* rowids of the leaf cells on the table pages in front of page p *)
RowidsBefore(p) ==
    UNION {{pages[q].cells[i].rowid : i \in 1..Len(pages[q].cells)} :
              q \in {x \in DOMAIN pages : x < p /\ pages[x].kind = "LeafTable"}}

SourceRowids == {rows[k].rowid : k \in 1..Len(rows)}

(* C13: a table walk that loads an index page, or an index walk that loads a
   table page, at the root or below it, ends the query with MalformedTree;
   no cell of that page is decoded, so the output holds only the rows of the
   pages walked before it. *)
TreePurityIsEnforced ==
    (result # "none" /\ impure # 0) =>
        LET Before(r) == r.rowid \in RowidsBefore(impure) /\ PassesFilter(r)
        IN  /\ (plan = "scan" /\ InTableTree(impure)) =>
                  /\ result = "MalformedTree"
                  /\ emitted = RowIds(SelectSeq(rows, Before))
            /\ (plan = "index" /\ ~InTableTree(impure)) =>
                  /\ result = "MalformedTree"
                  /\ out = <<>>
            /\ (plan = "index" /\ impure = TableRoot) =>
                  /\ result = "MalformedTree"
                  /\ out = <<>>
            /\ (plan = "index" /\ InTableTree(impure)) =>
                  /\ result \in {"ok", "MalformedTree"}
                  /\ \A k \in 1..Len(emitted) : emitted[k] \in SourceRowids

ImpureWitness ==
    /\ plan = "scan" /\ result = "MalformedTree"
    /\ impure > TableRoot + 1 /\ InTableTree(impure)
    /\ pages[impure].kind = "LeafIndex"
    /\ Len(emitted) >= 1

----------------------------------------------------------------------------
(* The SQL grammar of sql.rs: the nom combinators it is built from, applied
   to a text given as a sequence of characters.  A parser returns whether it
   matched, the rest of the input and the value it produced. *)

Ok(rest, val) == [ok |-> TRUE, rest |-> rest, val |-> val]
Err == [ok |-> FALSE, rest |-> <<>>, val |-> <<>>]

UpperCase == <<"A", "B", "C", "D", "E", "F", "G", "H", "I", "J", "K", "L", "M", "N", "O", "P", "Q", "R", "S", "T", "U", "V", "W", "X", "Y", "Z">>
LowerCase == <<"a", "b", "c", "d", "e", "f", "g", "h", "i", "j", "k", "l", "m", "n", "o", "p", "q", "r", "s", "t", "u", "v", "w", "x", "y", "z">>
DigitChars == {"0", "1", "2", "3", "4", "5", "6", "7", "8", "9"}

to_ascii_lowercase_char(c) ==
    IF \E i \in 1..26 : UpperCase[i] = c
    THEN LowerCase[CHOOSE i \in 1..26 : UpperCase[i] = c]
    ELSE c

to_ascii_lowercase(t) == [i \in 1..Len(t) |-> to_ascii_lowercase_char(t[i])]

is_alphanumeric(chr) ==
    \/ \E i \in 1..26 : UpperCase[i] = chr \/ LowerCase[i] = chr
    \/ chr \in DigitChars

is_space(chr) == chr \in {" ", "\t"}

is_sql_identifier_with_space(chr) == is_alphanumeric(chr) \/ chr = "_" \/ is_space(chr)

is_sql_identifier(chr) == is_alphanumeric(chr) \/ chr = "_"

Drop(t, n) == SubSeq(t, n + 1, Len(t))

tag(t, in) ==
    IF Len(in) >= Len(t) /\ SubSeq(in, 1, Len(t)) = t
    THEN Ok(Drop(in, Len(t)), t) ELSE Err

tag_no_case(t, in) ==
    IF /\ Len(in) >= Len(t)
       /\ to_ascii_lowercase(SubSeq(in, 1, Len(t))) = to_ascii_lowercase(t)
    THEN Ok(Drop(in, Len(t)), SubSeq(in, 1, Len(t))) ELSE Err

(* length of the longest prefix of in whose characters are all in the class *)
SpanLen(InClass(_), in) ==
    IF \A i \in 1..Len(in) : InClass(in[i]) THEN Len(in)
    ELSE (CHOOSE k \in 1..Len(in) :
             ~InClass(in[k]) /\ \A j \in 1..(k - 1) : InClass(in[j])) - 1

is_multispace(chr) == chr \in {" ", "\t", "\r", "\n"}

multispace0(in) ==
    LET n == SpanLen(is_multispace, in) IN Ok(Drop(in, n), SubSeq(in, 1, n))

multispace1(in) ==
    LET n == SpanLen(is_multispace, in)
    IN  IF n = 0 THEN Err ELSE Ok(Drop(in, n), SubSeq(in, 1, n))

take_while1(InClass(_), in) ==
    LET n == SpanLen(InClass, in)
    IN  IF n = 0 THEN Err ELSE Ok(Drop(in, n), SubSeq(in, 1, n))

(* take_until(t) for a one-character t: the text in front of its first
   occurrence, which stays in the rest *)
take_until(t, in) ==
    LET IsNot(chr) == chr # t
        n == SpanLen(IsNot, in)
    IN  IF n = Len(in) THEN Err ELSE Ok(Drop(in, n), SubSeq(in, 1, n))

(* a parser of a sequence runs when the one in front of it has matched *)
then(r, Rest(_)) == IF r.ok THEN Rest(r) ELSE Err

(* alt((p, q)): the second parser runs when the first has failed *)
alt(r, other) == IF r.ok THEN r ELSE other

(* opt(p): a failure of p consumes nothing *)
opt(r, in, none) == IF r.ok THEN r ELSE Ok(in, none)

(* many1(p): one more match, or the matches so far if there is one *)
many1(r, in, acc, More(_)) ==
    IF r.ok THEN More(r) ELSE IF acc = <<>> THEN Err ELSE Ok(in, acc)

(* many0(p): one more match, or the matches so far *)
many0(r, in, acc, More(_)) == IF r.ok THEN More(r) ELSE Ok(in, acc)

identifier(in) ==
    alt(then(tag(<<"\"">>, in), LAMBDA q1 :
        then(take_while1(is_sql_identifier_with_space, q1.rest), LAMBDA q2 :
        then(tag(<<"\"">>, q2.rest), LAMBDA q3 :
            Ok(q3.rest, q2.val)))),
        take_while1(is_sql_identifier, in))

(* opt(delimited(multispace0, tag(","), multispace0)) *)
opt_comma(in) ==
    opt(then(tag(<<",">>, multispace0(in).rest), LAMBDA c :
            Ok(multispace0(c.rest).rest, TRUE)),
        in, FALSE)

(* opt(tag(";")) *)
opt_semicolon(in) ==
    opt(then(tag(<<";">>, in), LAMBDA c : Ok(c.rest, TRUE)), in, FALSE)

(* many1(terminated(identifier, opt(delimited(multispace0, tag(","), multispace0)))) *)
RECURSIVE identifiers_from(_, _)
identifiers_from(in, acc) ==
    many1(identifier(in), in, acc, LAMBDA id :
        identifiers_from(opt_comma(id.rest).rest, Append(acc, id.val)))

identifiers(in) == identifiers_from(in, <<>>)

KwSelect == <<"s", "e", "l", "e", "c", "t">>
KwFrom == <<"f", "r", "o", "m">>
KwWhere == <<"w", "h", "e", "r", "e">>
KwCount == <<"c", "o", "u", "n", "t", "(", "*", ")">>
KwCreate == <<"c", "r", "e", "a", "t", "e">>
KwTable == <<"t", "a", "b", "l", "e">>
KwIndex == <<"i", "n", "d", "e", "x">>
KwOn == <<"O", "N">>
KwIfNotExists == <<"I", "F", " ", "N", "O", "T", " ", "E", "X", "I", "S", "T", "S">>
KwNotNull == <<"N", "O", "T", " ", "N", "U", "L", "L">>
KwAutoincrement == <<"A", "U", "T", "O", "I", "N", "C", "R", "E", "M", "E", "N", "T">>
KwPrimaryKey == <<"P", "R", "I", "M", "A", "R", "Y", " ", "K", "E", "Y">>
KwInteger == <<"i", "n", "t", "e", "g", "e", "r">>

parse_where_clause(in) ==
    opt(then(tag_no_case(KwWhere, multispace0(in).rest), LAMBDA w1 :
        then(identifier(multispace0(w1.rest).rest), LAMBDA w2 :
        then(tag(<<"=">>, multispace0(w2.rest).rest), LAMBDA w3 :
        then(tag(<<"'">>, multispace0(w3.rest).rest), LAMBDA w4 :
        then(take_until("'", w4.rest), LAMBDA w5 :
            Ok(w5.rest, Where(w2.val, w5.val))))))),
        in, NoWhere)

selection(in) ==
    then(tag_no_case(KwSelect, in), LAMBDA s1 :
    then(multispace1(s1.rest), LAMBDA s2 :
    then(identifiers(s2.rest), LAMBDA s3 :
    then(tag_no_case(KwFrom, multispace0(s3.rest).rest), LAMBDA s4 :
    then(multispace1(s4.rest), LAMBDA s5 :
    then(identifier(s5.rest), LAMBDA s6 :
    then(parse_where_clause(s6.rest), LAMBDA s7 :
        Ok(opt_semicolon(s7.rest).rest,
           [type |-> "SelectFields", table |-> s6.val, fields |-> s3.val,
            where_clause |-> s7.val]))))))))

count_selection(in) ==
    then(tag_no_case(KwSelect, in), LAMBDA s1 :
    then(multispace1(s1.rest), LAMBDA s2 :
    then(tag_no_case(KwCount, s2.rest), LAMBDA s3 :
    then(multispace1(s3.rest), LAMBDA s4 :
    then(tag_no_case(KwFrom, s4.rest), LAMBDA s5 :
    then(multispace1(s5.rest), LAMBDA s6 :
    then(identifier(s6.rest), LAMBDA s7 :
        Ok(opt_semicolon(s7.rest).rest, [type |-> "Count", table |-> s7.val]))))))))

(* one of NOT NULL, AUTOINCREMENT, PRIMARY KEY between optional blanks *)
column_constraint(in) ==
    then(multispace0(in), LAMBDA start :
        alt(then(tag_no_case(KwNotNull, start.rest), LAMBDA not_null :
                Ok(multispace0(not_null.rest).rest, "None")),
        alt(then(tag_no_case(KwAutoincrement, start.rest), LAMBDA auto_increment :
                Ok(multispace0(auto_increment.rest).rest, "None")),
            then(tag_no_case(KwPrimaryKey, start.rest), LAMBDA primary_key :
                Ok(multispace0(primary_key.rest).rest, "PrimaryKey")))))

(* many0(column_constraint) *)
RECURSIVE column_constraints_from(_, _)
column_constraints_from(in, acc) ==
    many0(column_constraint(in), in, acc, LAMBDA c :
        column_constraints_from(c.rest, Append(acc, c.val)))

(* opt(delimited(multispace0, identifier, multispace0)); no type is the
   empty text *)
opt_type(in) ==
    opt(then(identifier(multispace0(in).rest), LAMBDA ty :
            Ok(multispace0(ty.rest).rest, ty.val)),
        in, <<>>)

field_specification(in) ==
    then(identifier(in), LAMBDA column :
    then(opt_type(column.rest), LAMBDA ty :
    then(column_constraints_from(ty.rest, <<>>), LAMBDA constraints :
        Ok(opt_comma(constraints.rest).rest,
           [name |-> column.val,
            is_primary_key |->
               /\ \E i \in 1..Len(constraints.val) : constraints.val[i] = "PrimaryKey"
               /\ to_ascii_lowercase(ty.val) = KwInteger]))))

(* many1(field_specification) *)
RECURSIVE field_specification_list_from(_, _)
field_specification_list_from(in, acc) ==
    many1(field_specification(in), in, acc, LAMBDA f :
        IF Len(f.rest) = Len(in) THEN Err
        ELSE field_specification_list_from(f.rest, Append(acc, f.val)))

field_specification_list(in) == field_specification_list_from(in, <<>>)

(* opt(tuple((tag_no_case("IF NOT EXISTS"), multispace1))) *)
opt_if_not_exists(in) ==
    opt(then(tag_no_case(KwIfNotExists, in), LAMBDA e1 :
        then(multispace1(e1.rest), LAMBDA e2 : Ok(e2.rest, TRUE))),
        in, FALSE)

parse_creation(in) ==
    then(tag_no_case(KwCreate, in), LAMBDA c1 :
    then(multispace1(c1.rest), LAMBDA c2 :
    then(tag_no_case(KwTable, c2.rest), LAMBDA c3 :
    then(multispace1(c3.rest), LAMBDA c4 :
    then(identifier(opt_if_not_exists(c4.rest).rest), LAMBDA c5 :
    then(tag(<<"(">>, multispace0(c5.rest).rest), LAMBDA c6 :
    then(field_specification_list(multispace0(c6.rest).rest), LAMBDA c7 :
    then(tag(<<")">>, multispace0(c7.rest).rest), LAMBDA c8 :
        Ok(opt_semicolon(c8.rest).rest,
           [type |-> "CreateTable", table |-> c5.val, fields |-> c7.val])))))))))

(* many1(identifier) *)
RECURSIVE many1_identifier_from(_, _)
many1_identifier_from(in, acc) ==
    many1(identifier(in), in, acc, LAMBDA id :
        many1_identifier_from(id.rest, Append(acc, id.val)))

parse_index_creation(in) ==
    then(tag_no_case(KwCreate, in), LAMBDA c1 :
    then(multispace1(c1.rest), LAMBDA c2 :
    then(tag_no_case(KwIndex, c2.rest), LAMBDA c3 :
    then(multispace1(c3.rest), LAMBDA c4 :
    then(identifier(opt_if_not_exists(c4.rest).rest), LAMBDA c5 :
    then(multispace1(c5.rest), LAMBDA c6 :
    then(tag_no_case(KwOn, c6.rest), LAMBDA c7 :
    then(multispace1(c7.rest), LAMBDA c8 :
    then(identifier(c8.rest), LAMBDA c9 :
    then(tag(<<"(">>, multispace0(c9.rest).rest), LAMBDA c10 :
    then(many1_identifier_from(multispace0(c10.rest).rest, <<>>), LAMBDA c11 :
    then(tag(<<")">>, multispace0(c11.rest).rest), LAMBDA c12 :
        Ok(opt_semicolon(c12.rest).rest,
           [type |-> "CreateIndex", name |-> c5.val, table |-> c9.val,
            fields |-> c11.val])))))))))))))

parse(in) ==
    alt(parse_creation(in),
    alt(selection(in),
    alt(count_selection(in),
        parse_index_creation(in))))

----------------------------------------------------------------------------
(* Specification of the SQL grammar: a text is drawn, parse is applied *)

MaxColumns == 2     \* column definitions of a generated CREATE TABLE

Sp == <<" ">>

TypeWords == {<<>>, <<"I", "N", "T", "E", "G", "E", "R">>, <<"I", "n", "t", "e", "g", "e", "r">>, <<"T", "E", "X", "T">>}

ConstraintLists ==
    {<<>>,
     <<<<"P", "R", "I", "M", "A", "R", "Y", " ", "K", "E", "Y">>>>,
     <<<<"N", "O", "T", " ", "N", "U", "L", "L">>>>,
     <<<<"p", "r", "i", "m", "a", "r", "y", " ", "k", "e", "y">>, <<"a", "u", "t", "o", "i", "n", "c", "r", "e", "m", "e", "n", "t">>>>}

ColumnName(k) == <<"c">> \o DecimalNat(k)

(* the text of one column definition: name [type] [constraint ...] *)
ColumnText(def) ==
    def.name
    \o (IF def.ty = <<>> THEN <<>> ELSE Sp \o def.ty)
    \o Flatten([i \in 1..Len(def.constraints) |-> Sp \o def.constraints[i]])

ColumnLists ==
    UNION {[1..n -> [ty : TypeWords, constraints : ConstraintLists]] :
              n \in 1..MaxColumns}

Named(cols) ==
    [k \in 1..Len(cols) |->
        [name |-> ColumnName(k), ty |-> cols[k].ty, constraints |-> cols[k].constraints]]

RECURSIVE JoinText(_, _)
JoinText(parts, sep) ==
    IF Len(parts) = 0 THEN <<>>
    ELSE IF Len(parts) = 1 THEN parts[1]
    ELSE parts[1] \o sep \o JoinText(Tail(parts), sep)

CreateTableText(defs, if_not_exists) ==
    <<"C", "R", "E", "A", "T", "E", " ", "T", "A", "B", "L", "E", " ">>
    \o (IF if_not_exists THEN <<"I", "F", " ", "N", "O", "T", " ", "E", "X", "I", "S", "T", "S", " ">> ELSE <<>>)
    \o <<"t", " ", "(">>
    \o JoinText([k \in 1..Len(defs) |-> ColumnText(defs[k])], <<",", " ">>)
    \o <<")">>

SelectTexts ==
    {<<"S", "E", "L", "E", "C", "T", " ", "a", " ", "F", "R", "O", "M", " ", "t">>,
     <<"s", "e", "l", "e", "c", "t", " ", "a", ",", " ", "b", " ", "f", "r", "o", "m", " ", "t">>,
     <<"S", "E", "L", "E", "C", "T", " ", "a", " ", "F", "R", "O", "M", " ", "t", " ", "W", "H", "E", "R", "E", " ", "b", " ", "=", " ", "'", "x", " ", "y", "'">>}

CountText == <<"S", "E", "L", "E", "C", "T", " ", "C", "O", "U", "N", "T", "(", "*", ")", " ", "F", "R", "O", "M", " ", "t">>

CreateIndexText == <<"C", "R", "E", "A", "T", "E", " ", "I", "N", "D", "E", "X", " ", "i", " ", "o", "n", " ", "t", " ", "(", "b", ")">>

(* text that follows a complete statement *)
Trailings == {<<>>, <<" ", "O", "R", "D", "E", "R", " ", "B", "Y", " ", "a">>, <<" ", "x">>}

Semicolons == {<<>>, <<";">>}

SqlInput(form, statement, semicolon, trailing, defs) ==
    [text |-> statement \o semicolon \o trailing, form |-> form,
     statement |-> statement, trailing |-> trailing, columns |-> defs]

SqlInputs ==
    {SqlInput("CreateTable", CreateTableText(Named(cols), d[1]), d[2], <<>>, Named(cols)) :
        cols \in ColumnLists, d \in {<<FALSE, <<>>>>, <<TRUE, <<";">>>>}}
    \cup {SqlInput("CreateTable",
                   CreateTableText(Named(<<[ty |-> <<"I", "N", "T", "E", "G", "E", "R">>,
                                            constraints |-> <<<<"P", "R", "I", "M", "A", "R", "Y", " ", "K", "E", "Y">>>>]>>), FALSE),
                   semi, trailing, <<>>) :
             semi \in Semicolons, trailing \in Trailings \ {<<>>}}
    \cup {SqlInput("SelectFields", text, semi, trailing, <<>>) :
             text \in SelectTexts, semi \in Semicolons, trailing \in Trailings}
    \cup {SqlInput(form[1], form[2], semi, trailing, <<>>) :
             form \in {<<"Count", CountText>>, <<"CreateIndex", CreateIndexText>>},
             semi \in Semicolons, trailing \in Trailings}

InitSql ==
    /\ sql_input \in SqlInputs
    /\ parsed = NoCommand
    /\ IdleWalk /\ IdleVarint /\ IdleRecord /\ IdleSerial
    /\ IdleOpen /\ IdleCell /\ IdleSchema

(* what the caller of parse sees *)
Outcome(r) ==
    IF r.ok THEN [status |-> "ok", rest |-> r.rest, command |-> r.val]
    ELSE [status |-> "ParseError", rest |-> <<>>, command |-> <<>>]

Parse ==
    /\ parsed.status = "none"
    /\ parsed' = Outcome(parse(sql_input.text))
    /\ UNCHANGED sql_input
    /\ UNCHANGED <<walkVars, varintVars, recordVars, serialVars>>
    /\ UNCHANGED <<openVars, cellVars, schemaVars>>

NextSql == Parse

SpecSql == InitSql /\ [][NextSql]_vars

(* Properties of the SQL grammar *)

CarriesPrimaryKey(def) ==
    \E i \in 1..Len(def.constraints) :
        to_ascii_lowercase(def.constraints[i]) = to_ascii_lowercase(KwPrimaryKey)

ExpectedField(def) ==
    [name |-> def.name,
     is_primary_key |-> CarriesPrimaryKey(def) /\ to_ascii_lowercase(def.ty) = KwInteger]

(* C17: a CREATE TABLE statement yields one field per column definition, in
   source order; a field is the primary key iff its definition carries
   PRIMARY KEY and its type is INTEGER in any letter case; PRIMARY KEY with
   another type or with no type gives FALSE and no extra field. *)
CreateTableFieldsFollowColumns ==
    (parsed.status # "none" /\ sql_input.form = "CreateTable"
                            /\ sql_input.trailing = <<>>) =>
        /\ parsed.status = "ok"
        /\ parsed.command.type = "CreateTable"
        /\ parsed.command.fields =
              [k \in 1..Len(sql_input.columns) |-> ExpectedField(sql_input.columns[k])]

(* C18: an input with text left over after a complete statement (and its
   optional ';') is not accepted: parse yields a ParseError. *)
ParseRejectsLeftoverInput ==
    (parsed.status # "none" /\ sql_input.trailing # <<>>) =>
        parsed.status = "ParseError"

----------------------------------------------------------------------------
(* The schema loader of sqlite_schema.rs and the dot commands of main.rs *)

(* the create-table or create-index command of a schema row's sql *)
parse_create(in) == alt(parse_creation(in), parse_index_creation(in))

Column_from(f) == [name |-> f.name, is_primary_key |-> f.is_primary_key]

(* tables.insert(name, table) *)
HashMap_insert(tables, name, table) ==
    [n \in (DOMAIN tables) \cup {name} |-> IF n = name THEN table ELSE tables[n]]

(* sql::parse_create(&row.sql)?, then the body of the loop *)
parsed_row(sql, tables, Body(_)) ==
    IF sql.ok THEN Body(sql.val) ELSE [status |-> "ParseError", tables |-> tables]

(* a step of the loader, run when the one in front of it has not failed *)
and_then(r, Rest(_)) == IF r.status = "ok" THEN Rest(r.tables) ELSE r

(* first loop of SchemaStore::read from row i on *)
RECURSIVE read_tables_from(_, _, _)
read_tables_from(rs, i, tables) ==
    IF i > Len(rs) THEN [status |-> "ok", tables |-> tables]
    ELSE parsed_row(parse_create(rs[i].sql), tables, LAMBDA sql :
            IF sql.type = "CreateTable"
            THEN read_tables_from(rs, i + 1,
                    HashMap_insert(tables, sql.table,
                       [name |-> sql.table,
                        columns |-> [k \in 1..Len(sql.fields) |-> Column_from(sql.fields[k])],
                        indexes |-> <<>>,
                        rootpage |-> rs[i].rootpage]))
            ELSE read_tables_from(rs, i + 1, tables))

(* second loop of SchemaStore::read from row i on *)
RECURSIVE read_indexes_from(_, _, _)
read_indexes_from(rs, i, tables) ==
    IF i > Len(rs) THEN [status |-> "ok", tables |-> tables]
    ELSE parsed_row(parse_create(rs[i].sql), tables, LAMBDA sql :
            IF sql.type = "CreateIndex"
            THEN IF sql.table \notin DOMAIN tables
                 THEN [status |-> "panic", tables |-> tables]
                 ELSE read_indexes_from(rs, i + 1,
                         [tables EXCEPT ![sql.table].indexes =
                             Append(@, [name |-> sql.name,
                                        columns |-> sql.fields,
                                        table_name |-> sql.table,
                                        rootpage |-> rs[i].rootpage])])
            ELSE read_indexes_from(rs, i + 1, tables))

(* faulty variant of SchemaStore_read: one loop over the rows, an index is
   attached when its row is met *)
RECURSIVE SchemaStore_read_one_pass(_)
SchemaStore_read_one_pass(rs) ==
    IF rs = <<>> THEN [status |-> "ok", tables |-> <<>>]
    ELSE and_then(SchemaStore_read_one_pass(SubSeq(rs, 1, Len(rs) - 1)), LAMBDA before :
         and_then(read_tables_from(<<rs[Len(rs)]>>, 1, before), LAMBDA with_table :
             read_indexes_from(<<rs[Len(rs)]>>, 1, with_table)))

SchemaStore_read(rs) ==
    and_then(read_tables_from(rs, 1, <<>>), LAMBDA tables :
        read_indexes_from(rs, 1, tables))

(* the sequences that hold every element of S once *)
Orders(S) ==
    {o \in [1..Cardinality(S) -> S] : \A i, j \in 1..Cardinality(S) : i # j => o[i] # o[j]}

(* user_tables(): self.tables.values() in the iteration order of this
   HashMap, without the names that begin with sqlite_ *)
user_tables_values(st) ==
    LET Kept(name) == ~starts_with(name, SqlitePrefix)
    IN  SelectSeq(st.order, Kept)

(* main.rs, ".tables": the name column of every cell of page 1, in cell
   pointer order, unless it begins with sqlite_ *)
dot_tables(rs) ==
    LET Kept(row) == ~starts_with(row.name, SqlitePrefix)
        kept == SelectSeq(rs, Kept)
    IN  [k \in 1..Len(kept) |-> kept[k].name]

(* main.rs, ".dbinfo": the page size of the file header and the number of
   cells of the page header that follows it *)
dbinfo_lines(header, btree_header, f) ==
    IF header.status # "ok" \/ btree_header.status # "ok"
    THEN [status |-> "Io", lines |-> <<>>]
    ELSE [status |-> "ok",
          lines |-> <<<<"d", "a", "t", "a", "b", "a", "s", "e", " ", "p", "a", "g", "e", " ", "s", "i", "z", "e", ":", " ">>
                         \o Decimal(u16_from_be_bytes(BufByte(f, header, 16),
                                                      BufByte(f, header, 17))),
                      <<"n", "u", "m", "b", "e", "r", " ", "o", "f", " ", "t", "a", "b", "l", "e", "s", ":", " ">>
                         \o Decimal(u16_from_be_bytes(BufByte(f, btree_header, 3),
                                                      BufByte(f, btree_header, 4)))>>]

dot_dbinfo(f) == dbinfo_lines(read_exact(f, 0, 100), read_exact(f, 100, 8), f)

(* Schema rows under test *)

MaxSchemaRows == 3

SchemaPageSizes == {512, 4096}

SchemaRow(kind, name, tbl_name, rootpage, sql) ==
    [kind |-> kind, name |-> name, tbl_name |-> tbl_name,
     rootpage |-> rootpage, sql |-> sql]

RowPool ==
    {SchemaRow("table", <<"a">>, <<"a">>, 2,
               <<"C", "R", "E", "A", "T", "E", " ", "T", "A", "B", "L", "E", " ", "a", " ", "(", "i", "d", " ", "I", "N", "T", "E", "G", "E", "R", " ", "P", "R", "I", "M", "A", "R", "Y", " ", "K", "E", "Y", ",", " ", "c", " ", "T", "E", "X", "T", ")">>),
     SchemaRow("table", <<"b">>, <<"b">>, 3,
               <<"C", "R", "E", "A", "T", "E", " ", "T", "A", "B", "L", "E", " ", "b", " ", "(", "c", " ", "T", "E", "X", "T", ")">>),
     SchemaRow("table", <<"s", "q", "l", "i", "t", "e", "_", "s", "e", "q", "u", "e", "n", "c", "e">>, <<"s", "q", "l", "i", "t", "e", "_", "s", "e", "q", "u", "e", "n", "c", "e">>, 4,
               <<"C", "R", "E", "A", "T", "E", " ", "T", "A", "B", "L", "E", " ", "s", "q", "l", "i", "t", "e", "_", "s", "e", "q", "u", "e", "n", "c", "e", "(", "n", "a", "m", "e", ",", "s", "e", "q", ")">>),
     SchemaRow("index", <<"i">>, <<"a">>, 5,
               <<"C", "R", "E", "A", "T", "E", " ", "I", "N", "D", "E", "X", " ", "i", " ", "O", "N", " ", "a", " ", "(", "c", ")">>),
     SchemaRow("index", <<"j">>, <<"a">>, 6,
               <<"C", "R", "E", "A", "T", "E", " ", "I", "N", "D", "E", "X", " ", "j", " ", "o", "n", " ", "a", " ", "(", "i", "d", ")">>),
     SchemaRow("index", <<"k">>, <<"b">>, 7,
               <<"C", "R", "E", "A", "T", "E", " ", "I", "N", "D", "E", "X", " ", "k", " ", "O", "N", " ", "b", " ", "(", "c", ")">>)}

(* every index row of S has the row of its table in S *)
Closed(S) ==
    \A x \in S : x.kind = "index" =>
        \E t \in S : t.kind = "table" /\ t.name = x.tbl_name

RowSets ==
    {S \in SUBSET RowPool : Cardinality(S) \in 1..MaxSchemaRows /\ Closed(S)}

(* page 1 holds one cell per row, allocated from the end of the page *)
SchemaFile(ps, rs) ==
    DatabaseFile(ps, 1, 13, [k \in 1..Len(rs) |-> ps - 20 * k], <<>>)

InitSchema ==
    /\ \E S \in RowSets : schema_rows \in Orders(S)
    /\ \E ps \in SchemaPageSizes : db_file = SchemaFile(ps, schema_rows)
    /\ overflow_checks = FALSE
    /\ db = NoDatabase
    /\ loaded_page = NoPage
    /\ schema_store = NoStore
    /\ listing = NoListing
    /\ dbinfo = NoListing
    /\ IdleWalk /\ IdleVarint /\ IdleRecord /\ IdleSerial
    /\ IdleCell /\ IdleSql

(* one run of the program executes one command *)
NoCommandRun ==
    schema_store.status = "none" /\ listing.status = "none" /\ dbinfo.status = "none"

(* SchemaStore::read; the store's HashMap iterates in an order of its own *)
ReadSchema ==
    /\ NoCommandRun
    /\ LET r == SchemaStore_read(schema_rows)
       IN  \E order \in Orders(DOMAIN r.tables) :
              schema_store' = [status |-> r.status, tables |-> r.tables, order |-> order]
    /\ UNCHANGED <<schema_rows, listing, dbinfo>>
    /\ UNCHANGED <<walkVars, varintVars, recordVars, serialVars>>
    /\ UNCHANGED <<openVars, cellVars, sqlVars>>

DotTables ==
    /\ NoCommandRun
    /\ listing' = [status |-> "ok", lines |-> dot_tables(schema_rows)]
    /\ UNCHANGED <<schema_rows, schema_store, dbinfo>>
    /\ UNCHANGED <<walkVars, varintVars, recordVars, serialVars>>
    /\ UNCHANGED <<openVars, cellVars, sqlVars>>

DotDbinfo ==
    /\ NoCommandRun
    /\ dbinfo' = dot_dbinfo(db_file)
    /\ UNCHANGED <<schema_rows, schema_store, listing>>
    /\ UNCHANGED <<walkVars, varintVars, recordVars, serialVars>>
    /\ UNCHANGED <<openVars, cellVars, sqlVars>>

NextSchema == ReadSchema \/ DotTables \/ DotDbinfo

SpecSchema == InitSchema /\ [][NextSchema]_vars

(* Properties of the schema loader and the dot commands *)

IsUserTable(row) == row.kind = "table" /\ ~starts_with(row.name, SqlitePrefix)

UserTableNames(rs) ==
    LET kept == SelectSeq(rs, IsUserTable)
    IN  [k \in 1..Len(kept) |-> kept[k].name]

RowsOf(rs) == {rs[k] : k \in 1..Len(rs)}

IndexRows(rs) == {rs[k] : k \in {n \in 1..Len(rs) : rs[n].kind = "index"}}

(* the indexes of table t in store st, as a set *)
IndexSet(st, t) == {st.tables[t].indexes[k] : k \in 1..Len(st.tables[t].indexes)}

(* every index row of rs is in the list of the table of its ON clause, once,
   and in no other list *)
IndexesAttachedOnce(rs, st) ==
    \A x \in IndexRows(rs) : \A t \in DOMAIN st.tables :
        Cardinality({k \in 1..Len(st.tables[t].indexes) :
                        st.tables[t].indexes[k].name = x.name})
            = IF t = x.tbl_name THEN 1 ELSE 0

(* the tables of two stores agree but for the order of the indexes lists *)
SameUpToIndexOrder(s1, s2) ==
    /\ s1.status = s2.status
    /\ DOMAIN s1.tables = DOMAIN s2.tables
    /\ \A t \in DOMAIN s1.tables :
         /\ [s1.tables[t] EXCEPT !.indexes = <<>>] = [s2.tables[t] EXCEPT !.indexes = <<>>]
         /\ IndexSet(s1, t) = IndexSet(s2, t)
         /\ Len(s1.tables[t].indexes) = Len(s2.tables[t].indexes)

Loaded == schema_store.status # "none"

(* the rows in the order of their root pages: tables in front of indexes *)
ByRootpage(rs) ==
    CHOOSE o \in Orders(RowsOf(rs)) :
        \A i, j \in 1..Len(o) : i < j => o[i].rootpage < o[j].rootpage

(* the store read from the rows in the order of their root pages; every
   permutation of the rows is compared with this one *)
Reference == SchemaStore_read(ByRootpage(schema_rows))

(* C14: the store that SchemaStore::read builds is the same for every
   permutation of the sqlite_schema rows (each is reached as schema_rows and
   compared with the rows in root page order), and every index is in the indexes
   list of exactly the table named in its ON clause *)
StoreIsOrderIndependent ==
    Loaded =>
        /\ schema_store.status = "ok"
        /\ IndexesAttachedOnce(schema_rows, schema_store)
        /\ Reference = [status |-> schema_store.status, tables |-> schema_store.tables]

(* C14, amended: for every permutation of the rows (each is reached as
   schema_rows) the store has the same
   tables with the same columns and root pages and, per table, the same set
   of indexes, each index once in the list of the table named in its ON
   clause and in no other; the order inside an indexes list follows the
   order of the index rows *)
StoreIsOrderIndependentUpToIndexOrder ==
    Loaded =>
        /\ schema_store.status = "ok"
        /\ IndexesAttachedOnce(schema_rows, schema_store)
        /\ SameUpToIndexOrder(Reference, schema_store)

(* an index row was read before the row of its table *)
IndexBeforeTableLoaded ==
    /\ Loaded
    /\ \E i, j \in 1..Len(schema_rows) :
         /\ i < j
         /\ schema_rows[i].kind = "index"
         /\ schema_rows[j].kind = "table"
         /\ schema_rows[j].name = schema_rows[i].tbl_name
    /\ \E t \in DOMAIN schema_store.tables : Len(schema_store.tables[t].indexes) > 0

(* C15: .tables and user_tables list the tables whose name does not begin
   with sqlite_, each once, no index names, in the order of the schema rows *)
TablesListingIsUserTablesInOrder ==
    /\ listing.status # "none" => listing.lines = UserTableNames(schema_rows)
    /\ schema_store.status = "ok" =>
          user_tables_values(schema_store) = UserTableNames(schema_rows)

(* C16: .dbinfo prints the page size of the header and then the number of
   user tables, index rows and sqlite_ tables not counted *)
DbinfoCountsUserTables ==
    dbinfo.status # "none" =>
        /\ dbinfo.status = "ok"
        /\ dbinfo.lines =
              <<<<"d", "a", "t", "a", "b", "a", "s", "e", " ", "p", "a", "g", "e", " ", "s", "i", "z", "e", ":", " ">> \o Decimal(db_file.page_size),
                <<"n", "u", "m", "b", "e", "r", " ", "o", "f", " ", "t", "a", "b", "l", "e", "s", ":", " ">> \o Decimal(Len(UserTableNames(schema_rows)))>>

----------------------------------------------------------------------------
(* Specification of the unknown names: one SELECT that names a table the
   schema lacks, or a column the table lacks *)

MaxUnknownRowid == 2

UnknownRowMaps == UNION {[1..n -> 1..Len(CVals)] : n \in 0..MaxUnknownRowid}

AbsentTable == <<"u">>

AbsentColumn == "x"

UnknownFieldLists == {<<"id">>, <<AbsentColumn>>, <<"id", AbsentColumn>>}

UnknownWhereClauses == {NoWhere, Where("c", <<"a">>), Where(AbsentColumn, <<"a">>)}

NamesAbsentColumn(stmt) ==
    \/ \E i \in 1..Len(stmt.fields) : stmt.fields[i] = AbsentColumn
    \/ stmt.where_clause.some /\ stmt.where_clause.field = AbsentColumn

UnknownStatements ==
    {stmt \in [fields : UnknownFieldLists, table : {TableName, AbsentTable},
               where_clause : UnknownWhereClauses] :
        stmt.table = AbsentTable \/ NamesAbsentColumn(stmt)}

InitUnknown ==
    /\ \E rowmap \in UnknownRowMaps, has_index \in BOOLEAN :
         \E cuts \in TableCuts(Cardinality(DOMAIN rowmap)) :
            /\ rows = SourceRows(rowmap, Null)
            /\ pages = File(rowmap, cuts, Null, has_index, {})
            /\ schema = Store(rowmap, cuts, has_index)
    /\ sql_statement = NoStatement
    /\ out = <<>> /\ emitted = <<>> /\ plan = "none" /\ result = "none"
    /\ impure = 0
    /\ wanted_ids = <<>> /\ page_loads = <<>>
    /\ IdleVarint /\ IdleRecord /\ IdleSerial
    /\ IdleOpen /\ IdleCell /\ IdleSql /\ IdleSchema

NextUnknown == \E stmt \in UnknownStatements : SelectFields(stmt)

SpecUnknown == InitUnknown /\ [][NextUnknown]_vars

(* C19: a SELECT that names a table absent from the schema ends with the
   unknown-table error, one that names a select-list or WHERE column absent
   from the table ends with the unknown-column error; no row is written and
   nothing panics *)
UnknownNamesAreReported ==
    result # "none" =>
        /\ result # "panic"
        /\ out = <<>>
        /\ sql_statement.table = AbsentTable => result = "TableNotFound"
        /\ (sql_statement.table = TableName /\ NamesAbsentColumn(sql_statement)) =>
              result = "UnknownColumn"

----------------------------------------------------------------------------
(* The cell readers of page.rs.  data is the slice that Page::cells hands to
   read_cell: the page from the cell pointer to the end of the page. *)

PanickedCell ==
    [status |-> "panic", kind |-> "", size |-> 0, rowid |-> 0,
     left_child_page |-> 0, payload |-> <<>>, overflow_page |-> 0]

(* the (overflow_page, end) pair of a reader and its slice &data[cursor..end] *)
payload_and_overflow(data, cursor, size) ==
    IF size > Len(data) - cursor
    THEN IF Len(data) < 4 \/ cursor > Len(data) - 4
         THEN [status |-> "panic", payload |-> <<>>, overflow_page |-> 0]
         ELSE [status |-> "ok",
               payload |-> SubSeq(data, cursor + 1, Len(data) - 4),
               overflow_page |-> u32_from_be_bytes(data[Len(data) - 3], data[Len(data) - 2],
                                                   data[Len(data) - 1], data[Len(data)])]
    ELSE [status |-> "ok",
          payload |-> SubSeq(data, cursor + 1, cursor + size),
          overflow_page |-> 0]

(* the Cell value built from the header fields and the payload slice *)
Cell_of(kind, size, rowid, left_child_page, slice) ==
    IF slice.status # "ok" THEN PanickedCell
    ELSE [status |-> "ok", kind |-> kind, size |-> size, rowid |-> rowid,
          left_child_page |-> left_child_page,
          payload |-> slice.payload, overflow_page |-> slice.overflow_page]

Cell_read_interior_index(data) ==
    IF Len(data) < 4 THEN PanickedCell
    ELSE LET sz == read(SubSeq(data, 5, Len(data)))
         IN  Cell_of("InteriorIndex", AsU64(sz.value), 0,
                     u32_from_be_bytes(data[1], data[2], data[3], data[4]),
                     payload_and_overflow(data, 4 + sz.bytes_read, AsU64(sz.value)))

Cell_read_leaf_index(data) ==
    LET sz == read(data)
    IN  Cell_of("LeafIndex", AsU64(sz.value), 0, 0,
                payload_and_overflow(data, sz.bytes_read, AsU64(sz.value)))

Cell_read_leaf_table(data) ==
    LET sz == read(data)
        id == read(SubSeq(data, sz.bytes_read + 1, Len(data)))
    IN  Cell_of("LeafTable", AsU64(sz.value), AsU64(id.value), 0,
                payload_and_overflow(data, sz.bytes_read + id.bytes_read, AsU64(sz.value)))

read_cell(kind, data) ==
    CASE kind = "InteriorIndex" -> Cell_read_interior_index(data)
      [] kind = "LeafIndex" -> Cell_read_leaf_index(data)
      [] kind = "LeafTable" -> Cell_read_leaf_table(data)

(* Cells under test: a cell as the file format lays it out, followed in the
   page by the bytes of the cells stored after it *)

MaxLocal == 2       \* payload bytes the cell keeps in the page
MaxTrailing == 5    \* bytes of the page that follow the cell

CellKinds == {"InteriorIndex", "LeafIndex", "LeafTable"}

(* 0: the payload is whole in the page *)
OverflowPages == {0, 5, 300}

U32Bytes(n) ==
    <<(n \div 16777216) % 256, (n \div 65536) % 256, (n \div 256) % 256, n % 256>>

(* a payload that does not fit is declared one byte longer than what the
   page holds after the cell header *)
CellLayout(kind, local, overflow_page, trailing) ==
    [kind |-> kind,
     header_len |-> CASE kind = "InteriorIndex" -> 5
                      [] kind = "LeafIndex" -> 1
                      [] kind = "LeafTable" -> 2,
     size |-> IF overflow_page = 0 THEN local ELSE local + 4 + trailing + 1,
     local |-> local,
     overflow_page |-> overflow_page,
     trailing |-> trailing]

CellLayouts ==
    {CellLayout(k, l, o, t) :
        k \in CellKinds, l \in 0..MaxLocal, o \in OverflowPages, t \in 0..MaxTrailing}

CellBytes(lay) ==
    (IF lay.kind = "InteriorIndex" THEN U32Bytes(3) ELSE <<>>)
    \o <<lay.size>>
    \o (IF lay.kind = "LeafTable" THEN <<1>> ELSE <<>>)
    \o [i \in 1..lay.local |-> 7]
    \o (IF lay.overflow_page = 0 THEN <<>> ELSE U32Bytes(lay.overflow_page))
    \o [i \in 1..lay.trailing |-> 9]

InitCell ==
    /\ cell_layout \in CellLayouts
    /\ cell_kind = cell_layout.kind
    /\ cell_data = CellBytes(cell_layout)
    /\ decoded_cell = NoCell
    /\ IdleWalk /\ IdleVarint /\ IdleRecord /\ IdleSerial
    /\ IdleOpen /\ IdleSql /\ IdleSchema

ReadCell ==
    /\ decoded_cell.status = "none"
    /\ decoded_cell' = read_cell(cell_kind, cell_data)
    /\ UNCHANGED <<cell_kind, cell_data, cell_layout>>
    /\ UNCHANGED <<walkVars, varintVars, recordVars, serialVars>>
    /\ UNCHANGED <<openVars, sqlVars, schemaVars>>

NextCell == ReadCell

SpecCell == InitCell /\ [][NextCell]_vars

(* Properties of the cell readers *)

(* bytes of the page after the cell header *)
AvailableInPage == Len(cell_data) - cell_layout.header_len

Fits == cell_layout.size <= AvailableInPage

(* C20: for LeafTable, LeafIndex and InteriorIndex cells overflow_page is
   non-zero iff the declared size exceeds the bytes available in the page
   after the cell header; a payload that fits is the size bytes at the
   cursor with overflow_page 0; one that does not fit ends just before the
   4 bytes that hold the overflow page number *)
PayloadAndOverflowFollowLayout ==
    decoded_cell.status # "none" =>
        /\ decoded_cell.status = "ok"
        /\ decoded_cell.size = cell_layout.size
        /\ (decoded_cell.overflow_page # 0) <=> ~Fits
        /\ Fits =>
              /\ decoded_cell.payload =
                    SubSeq(cell_data, cell_layout.header_len + 1,
                           cell_layout.header_len + cell_layout.size)
              /\ decoded_cell.overflow_page = 0
        /\ ~Fits =>
              /\ decoded_cell.payload =
                    SubSeq(cell_data, cell_layout.header_len + 1,
                           cell_layout.header_len + cell_layout.local)
              /\ decoded_cell.overflow_page = cell_layout.overflow_page

----------------------------------------------------------------------------
(* The rows of sqlite_schema as records: SQLiteSchemaRow::try_from on the
   five column values of a row cell, then SchemaStore::read on the rows *)

IntValue(type, k) == [type |-> type, n |-> k, content |-> <<>>]

FailedRow == [status |-> "InvalidSchemaRow", row |-> <<>>]

(* `i as u32`: the low 32 bits, put together from the two 16-bit halves *)
AsU32(k) == (((k \div 65536) % 65536) * 65536) + (k % 65536)

(* the text columns must be ColumnValue::Text, the root page ColumnValue::I8 *)
SQLiteSchemaRow_try_from(values) ==
    IF \E k \in {1, 2, 3} : Len(values) < k \/ values[k].type # "Text" THEN FailedRow
    ELSE IF Len(values) < 4 \/ values[4].type # "I8" THEN FailedRow
    ELSE IF Len(values) < 5 \/ values[5].type # "Text" THEN FailedRow
    ELSE [status |-> "ok",
          row |-> [kind |-> values[1].content, name |-> values[2].content,
                   tbl_name |-> values[3].content,
                   rootpage |-> AsU32(values[4].n),
                   sql |-> values[5].content]]

(* page.cells().map(try_from).collect::<Result<_>>() from cell i on *)
RECURSIVE SQLiteSchema_rows_from(_, _, _)
SQLiteSchema_rows_from(cells, i, acc) ==
    IF i > Len(cells) THEN [status |-> "ok", rows |-> acc]
    ELSE IF SQLiteSchemaRow_try_from(cells[i]).status # "ok"
    THEN [status |-> "InvalidSchemaRow", rows |-> <<>>]
    ELSE SQLiteSchema_rows_from(cells, i + 1,
                                Append(acc, SQLiteSchemaRow_try_from(cells[i]).row))

(* SchemaStore::read(page): the rows of the page, then the two loops *)
SchemaStore_read_cells(cells) ==
    IF SQLiteSchema_rows_from(cells, 1, <<>>).status # "ok"
    THEN [status |-> "InvalidSchemaRow", tables |-> <<>>]
    ELSE SchemaStore_read(SQLiteSchema_rows_from(cells, 1, <<>>).rows)

(* Schema rows under test, as SQLite writes them: a table, and optionally an
   index on it, a view and the automatic index of a UNIQUE column *)

RootPages == {2, 127, 128, 300, 40000, 9000000}

NullSql == <<"N", "U", "L", "L">>

(* the serial type SQLite gives an integer: the smallest that holds it *)
StoredInt(k) ==
    IF k = 0 THEN IntValue("Zero", 0)
    ELSE IF k = 1 THEN IntValue("One", 1)
    ELSE IF k <= 127 THEN IntValue("I8", k)
    ELSE IF k <= 32767 THEN IntValue("I16", k)
    ELSE IF k <= 8388607 THEN IntValue("I24", k)
    ELSE IntValue("I32", k)

TextChars(kind) ==
    CASE kind = "table" -> <<"t", "a", "b", "l", "e">>
      [] kind = "index" -> <<"i", "n", "d", "e", "x">>
      [] kind = "view" -> <<"v", "i", "e", "w">>

(* the column values of the cell of a row *)
RowValues(row) ==
    <<Text(TextChars(row.kind)), Text(row.name), Text(row.tbl_name),
      StoredInt(row.rootpage),
      IF row.sql = NullSql THEN Null ELSE Text(row.sql)>>

TableRow(root) ==
    SchemaRow("table", <<"a">>, <<"a">>, root,
              <<"C", "R", "E", "A", "T", "E", " ", "T", "A", "B", "L", "E", " ", "a", " ", "(", "i", "d", " ", "I", "N", "T", "E", "G", "E", "R", " ", "P", "R", "I", "M", "A", "R", "Y", " ", "K", "E", "Y", ",", " ", "c", " ", "T", "E", "X", "T", ")">>)

IndexRow(root) ==
    SchemaRow("index", <<"i">>, <<"a">>, root, <<"C", "R", "E", "A", "T", "E", " ", "I", "N", "D", "E", "X", " ", "i", " ", "O", "N", " ", "a", " ", "(", "c", ")">>)

ViewRow ==
    SchemaRow("view", <<"v">>, <<"v">>, 0, <<"C", "R", "E", "A", "T", "E", " ", "V", "I", "E", "W", " ", "v", " ", "A", "S", " ", "S", "E", "L", "E", "C", "T", " ", "c", " ", "F", "R", "O", "M", " ", "a">>)

AutoIndexRow(root) ==
    SchemaRow("index", <<"s", "q", "l", "i", "t", "e", "_", "a", "u", "t", "o", "i", "n", "d", "e", "x", "_", "a", "_", "1">>, <<"a">>, root, NullSql)

OptionalRows(S) == {<<>>} \cup {<<r>> : r \in S}

RowLists ==
    {<<TableRow(t)>> \o x \o v \o u :
        t \in RootPages,
        x \in OptionalRows({IndexRow(r) : r \in RootPages}),
        v \in OptionalRows({ViewRow}),
        u \in OptionalRows({AutoIndexRow(3)})}

InitRows ==
    /\ schema_rows \in RowLists
    /\ schema_store = NoStore
    /\ listing = NoListing
    /\ dbinfo = NoListing
    /\ IdleWalk /\ IdleVarint /\ IdleRecord /\ IdleSerial
    /\ IdleOpen /\ IdleCell /\ IdleSql

LoadSchema ==
    /\ schema_store.status = "none"
    /\ schema_store' =
          SchemaStore_read_cells([k \in 1..Len(schema_rows) |-> RowValues(schema_rows[k])])
    /\ UNCHANGED <<schema_rows, listing, dbinfo>>
    /\ UNCHANGED <<walkVars, varintVars, recordVars, serialVars>>
    /\ UNCHANGED <<openVars, cellVars, sqlVars>>

NextRows == LoadSchema

SpecRows == InitRows /\ [][NextRows]_vars

(* Properties of the row loader *)

RowsOfKind(kind) ==
    {r \in RowsOf(schema_rows) : r.kind = kind /\ r.sql # NullSql}

(* the rows that carry no create-table or create-index statement *)
UnparsedRows ==
    {r \in RowsOf(schema_rows) : r.kind \notin {"table", "index"} \/ r.sql = NullSql}

StoredTables == {schema_store.tables[t] : t \in DOMAIN schema_store.tables}

StoredIndexes == UNION {IndexSet(schema_store, t) : t \in DOMAIN schema_store.tables}

NameAndRoot(S) == {<<r.name, r.rootpage>> : r \in S}

(* C21: the tables of the store are the rows of type table, the attached
   indexes the rows of type index with a statement; a view and an automatic
   index with NULL sql neither make the load fail nor change the store *)
RowsAreClassifiedByType ==
    Loaded =>
        /\ schema_store.status = "ok"
        /\ {t.name : t \in StoredTables} = {r.name : r \in RowsOfKind("table")}
        /\ {x.name : x \in StoredIndexes} = {r.name : r \in RowsOfKind("index")}

(* C24: with no row but tables and indexes, every root page is loaded with
   its exact value whatever integer type stores it, and the load succeeds *)
RootPagesAreLoadedExactly ==
    (Loaded /\ UnparsedRows = {}) =>
        /\ schema_store.status = "ok"
        /\ NameAndRoot(StoredTables) = NameAndRoot(RowsOfKind("table"))
        /\ NameAndRoot(StoredIndexes) = NameAndRoot(RowsOfKind("index"))

----------------------------------------------------------------------------
(* Phase B on its own: read_ids_from_table on a table tree and a sorted
   slice of rowids, with the get_page calls it makes *)

PageLoad(parent, number, slice) ==
    [parent |-> parent, number |-> number, ids |-> slice]

(* the get_page calls of read_ids_from_table on page `number`, in order, each
   with the slice that goes to the child; ok is FALSE once a call failed *)
RECURSIVE read_ids_from_table_loads(_, _, _, _)
RECURSIVE read_ids_from_interior_table_loads(_, _, _, _, _, _)

read_ids_from_interior_table_loads(file, number, page, slice, i, acc) ==
    IF i <= Len(page.cells)
    THEN LET cell == page.cells[i]
             at == partition_point(slice, cell.key)
             left_ids == SubSeq(slice, 1, at)
             right_ids == SubSeq(slice, at + 1, Len(slice))
             p == get_page(file, cell.left_child_page - 1)
             here == acc \o <<PageLoad(number, cell.left_child_page, left_ids)>>
         IN  IF left_ids = <<>>
             THEN read_ids_from_interior_table_loads(file, number, page, right_ids,
                                                     i + 1, acc)
             ELSE IF p.status # "ok" THEN [ok |-> FALSE, loads |-> here]
             ELSE LET r == read_ids_from_table_loads(file, cell.left_child_page,
                                                     p.page, left_ids)
                  IN  IF ~r.ok THEN [ok |-> FALSE, loads |-> here \o r.loads]
                      ELSE read_ids_from_interior_table_loads(
                               file, number, page, right_ids, i + 1, here \o r.loads)
    ELSE IF Len(slice) = 0 THEN [ok |-> TRUE, loads |-> acc]
    ELSE IF page.right_child_page_number.some
    THEN LET right == page.right_child_page_number.number
             p == get_page(file, right - 1)
             here == acc \o <<PageLoad(number, right, slice)>>
         IN  IF p.status # "ok" THEN [ok |-> FALSE, loads |-> here]
             ELSE LET r == read_ids_from_table_loads(file, right, p.page, slice)
                  IN  [ok |-> r.ok, loads |-> here \o r.loads]
    ELSE [ok |-> TRUE, loads |-> acc]

read_ids_from_table_loads(file, number, page, slice) ==
    CASE page.kind = "InteriorTable" ->
            read_ids_from_interior_table_loads(file, number, page, slice, 1, <<>>)
      [] page.kind = "LeafTable" -> [ok |-> TRUE, loads |-> <<>>]
      [] OTHER -> [ok |-> FALSE, loads |-> <<>>]

MaxSliceRowid == 3     \* rows of the table that Phase B is run on
MaxSlice == 3          \* length of the rowid slice

SliceRowMaps == UNION {[1..n -> {1}] : n \in 0..MaxSliceRowid}

(* ascending slices, duplicates allowed, over rowids present and absent *)
RowidSlices ==
    {s \in UNION {[1..n -> 0..(MaxSliceRowid + 1)] : n \in 0..MaxSlice} :
        \A k \in 1..(Len(s) - 1) : s[k] <= s[k + 1]}

InitSlice ==
    /\ \E rowmap \in SliceRowMaps :
         \E cuts \in TableCuts(Cardinality(DOMAIN rowmap)) :
            /\ rows = SourceRows(rowmap, Null)
            /\ pages = File(rowmap, cuts, Null, FALSE, {})
            /\ schema = Store(rowmap, cuts, FALSE)
    /\ wanted_ids \in RowidSlices
    /\ page_loads = <<>>
    /\ sql_statement = NoStatement
    /\ out = <<>> /\ emitted = <<>> /\ plan = "none" /\ result = "none"
    /\ impure = 0
    /\ IdleVarint /\ IdleRecord /\ IdleSerial
    /\ IdleOpen /\ IdleCell /\ IdleSql /\ IdleSchema

(* read_ids_from_table(root page of t, query, ids, out) *)
ReadIdsFromTable(field_list) ==
    /\ result = "none"
    /\ sql_statement' = [fields |-> field_list, table |-> TableName,
                         where_clause |-> NoWhere]
    /\ LET table == schema.tables[TableName]
           root == get_page(pages, table.rootpage - 1).page
           r == read_ids_from_table(pages, root, Query_new(table, sql_statement'),
                                    wanted_ids)
       IN  /\ out' = out \o [k \in 1..Len(r.rows) |-> r.rows[k].line]
           /\ emitted' = emitted \o [k \in 1..Len(r.rows) |-> r.rows[k].rowid]
           /\ result' = r.status
           /\ page_loads' =
                 read_ids_from_table_loads(pages, table.rootpage, root, wanted_ids).loads
    /\ plan' = "ids"
    /\ UNCHANGED <<pages, schema, rows, impure, wanted_ids>>
    /\ UNCHANGED <<varintVars, recordVars, serialVars>>
    /\ UNCHANGED <<openVars, cellVars, sqlVars, schemaVars>>

NextSlice == \E field_list \in FieldLists : ReadIdsFromTable(field_list)

SpecSlice == InitSlice /\ [][NextSlice]_vars

(* Properties of Phase B *)

SliceSet(s) == {s[k] : k \in 1..Len(s)}

WantedRowids == {rows[k].rowid : k \in 1..Len(rows)} \cap SliceSet(wanted_ids)

EmitsWantedRowsOnce ==
    /\ result = "ok"
    /\ SliceSet(emitted) = WantedRowids
    /\ Len(emitted) = Cardinality(WantedRowids)

ChildSlicesAreSortedDisjointNonEmpty ==
    /\ \A k \in 1..Len(page_loads) :
          /\ page_loads[k].ids # <<>>
          /\ \A i \in 1..(Len(page_loads[k].ids) - 1) :
                page_loads[k].ids[i] <= page_loads[k].ids[i + 1]
    /\ \A j, k \in 1..Len(page_loads) :
          (j < k /\ page_loads[j].parent = page_loads[k].parent) =>
              SliceSet(page_loads[j].ids) \cap SliceSet(page_loads[k].ids) = {}

(* C22: read_ids_from_table on a well-formed table tree and an ascending
   slice writes exactly the rows whose rowid is in the slice, each once, also
   a row whose rowid is the key of an interior cell; the slices handed to
   children are sorted, disjoint per page and never empty *)
PhaseBIsExact ==
    plan = "ids" => (EmitsWantedRowsOnce /\ ChildSlicesAreSortedDisjointNonEmpty)

----------------------------------------------------------------------------
(* Phase A on its own: read_index on an index tree and a filter literal,
   with the get_page calls it makes *)

(* faulty variant of ChildPointers: the right child is followed a second
   time after the walk came back from it *)
ChildPointers_right_child_twice(page) ==
    [k \in 1..Len(page.cells) |-> page.cells[k].left_child_page]
        \o (IF page.right_child_page_number.some
            THEN <<page.right_child_page_number.number,
                   page.right_child_page_number.number>> ELSE <<>>)

(* the child pointers of a page in the order the walks follow them *)
ChildPointers(page) ==
    [k \in 1..Len(page.cells) |-> page.cells[k].left_child_page]
        \o (IF page.right_child_page_number.some
            THEN <<page.right_child_page_number.number>> ELSE <<>>)

(* read_interior_index returns before it loads the child of a cell whose
   indexed value is the literal as text and whose last value is no number *)
IdWasNotANumber(page, query, i) ==
    /\ i <= Len(page.cells)
    /\ page.cells[i].payload[query.index_field + 1].type = "Text"
    /\ page.cells[i].payload[query.index_field + 1].content = query.filter.value
    /\ ~is_number(page.cells[i].payload[Len(page.cells[i].payload)])

(* the get_page calls of read_index on page `number` from its i-th child on *)
RECURSIVE read_index_loads(_, _, _, _, _)
read_index_loads(file, number, page, query, i) ==
    IF page.kind = "LeafIndex" THEN [ok |-> TRUE, loads |-> <<>>]
    ELSE IF page.kind # "InteriorIndex" THEN [ok |-> FALSE, loads |-> <<>>]
    ELSE IF i > Len(ChildPointers(page)) THEN [ok |-> TRUE, loads |-> <<>>]
    ELSE IF IdWasNotANumber(page, query, i) THEN [ok |-> FALSE, loads |-> <<>>]
    ELSE LET child == ChildPointers(page)[i]
             p == get_page(file, child - 1)
             here == <<PageLoad(number, child, <<>>)>>
         IN  IF p.status # "ok" THEN [ok |-> FALSE, loads |-> here]
             ELSE LET below == read_index_loads(file, child, p.page, query, 1)
                  IN  IF ~below.ok THEN [ok |-> FALSE, loads |-> here \o below.loads]
                      ELSE LET rest == read_index_loads(file, number, page, query, i + 1)
                           IN  [ok |-> rest.ok,
                                loads |-> here \o below.loads \o rest.loads]

MaxIndexRowid == 4     \* rows of the table whose index Phase A is run on

IndexRowMaps == UNION {[1..n -> 1..Len(CVals)] : n \in 0..MaxIndexRowid}

AbsentLiteral == <<"z">>

InitIndex ==
    /\ \E rowmap \in IndexRowMaps :
         \E seps \in IndexSeps(Cardinality(DOMAIN rowmap)) :
            /\ rows = SourceRows(rowmap, Null)
            /\ pages = File(rowmap, {}, Null, TRUE, seps)
            /\ schema = Store(rowmap, {}, TRUE)
    /\ wanted_ids = <<>> /\ page_loads = <<>>
    /\ sql_statement = NoStatement
    /\ out = <<>> /\ emitted = <<>> /\ plan = "none" /\ result = "none"
    /\ impure = 0
    /\ IdleVarint /\ IdleRecord /\ IdleSerial
    /\ IdleOpen /\ IdleCell /\ IdleSql /\ IdleSchema

(* read_index(root page of the index, query, results) *)
ReadIndex(literal) ==
    /\ result = "none"
    /\ sql_statement' = [fields |-> <<"id">>, table |-> TableName,
                         where_clause |-> Where("c", literal)]
    /\ LET table == schema.tables[TableName]
           index == table.indexes[1]
           root == get_page(pages, index.rootpage - 1).page
           query == IndexQuery_new(table, sql_statement', index)
           r == read_index(pages, root, query)
       IN  /\ wanted_ids' = r.ids
           /\ result' = r.status
           /\ page_loads' = read_index_loads(pages, index.rootpage, root, query, 1).loads
    /\ plan' = "entries"
    /\ UNCHANGED <<pages, schema, rows, impure, out, emitted>>
    /\ UNCHANGED <<varintVars, recordVars, serialVars>>
    /\ UNCHANGED <<openVars, cellVars, sqlVars, schemaVars>>

NextIndex == \E literal \in Literals \cup {AbsentLiteral} : ReadIndex(literal)

SpecIndex == InitIndex /\ [][NextIndex]_vars

(* Properties of Phase A *)

MatchingRowids ==
    {rows[k].rowid : k \in {j \in 1..Len(rows) :
                               Format(rows[j].c) = sql_statement.where_clause.value}}

IndexPageNumbers == {p \in DOMAIN pages : pages[p].kind \in {"InteriorIndex", "LeafIndex"}}

IndexRootNumber == schema.tables[TableName].indexes[1].rootpage

VisitsEveryIndexChild ==
    {page_loads[k].number : k \in 1..Len(page_loads)}
        = IndexPageNumbers \ {IndexRootNumber}

(* C23: read_index collects the rowid of every index entry whose indexed
   value renders as the literal, in leaf cells and in interior cells, text or
   integer, visits every child page, and collects no other rowid *)
PhaseACollectsTheMatches ==
    plan = "entries" =>
        /\ result = "ok"
        /\ SliceSet(wanted_ids) = MatchingRowids
        /\ VisitsEveryIndexChild

----------------------------------------------------------------------------
(* The scan filter on a column that aliases the rowid *)

FilterIsOnRowidAlias ==
    /\ sql_statement.where_clause.some
    /\ find_column(schema.tables[TableName], sql_statement.where_clause.field).some
    /\ find_column(schema.tables[TableName],
                   sql_statement.where_clause.field).is_primary_key

RowidsRenderedAsLiteral ==
    {rows[k].rowid : k \in {j \in 1..Len(rows) :
                               Decimal(rows[j].rowid) = sql_statement.where_clause.value}}

(* C25: a scan whose filter names a column that aliases the rowid compares
   the literal with the rowid: it writes exactly the rows whose rowid renders
   as the literal, whatever the payload holds in the slot of the column *)
ScanFiltersAliasByRowid ==
    (plan = "scan" /\ FilterIsOnRowidAlias) =>
        /\ result = "ok"
        /\ SliceSet(emitted) = RowidsRenderedAsLiteral
        /\ Len(emitted) = Cardinality(RowidsRenderedAsLiteral)

----------------------------------------------------------------------------
(* The three walks side by side: what each loads, and what it leaves alone *)

(* the get_page calls of read_table on page `number` from its i-th child on *)
RECURSIVE read_table_loads(_, _, _, _, _)
read_table_loads(file, number, page, query, i) ==
    IF page.kind = "LeafTable"
    THEN [ok |-> read_leaf_table(page, query).status = "ok", loads |-> <<>>]
    ELSE IF page.kind # "InteriorTable" THEN [ok |-> FALSE, loads |-> <<>>]
    ELSE IF i > Len(ChildPointers(page)) THEN [ok |-> TRUE, loads |-> <<>>]
    ELSE LET child == ChildPointers(page)[i]
             p == get_page(file, child - 1)
             here == <<PageLoad(number, child, <<>>)>>
         IN  IF p.status # "ok" THEN [ok |-> FALSE, loads |-> here]
             ELSE LET below == read_table_loads(file, child, p.page, query, 1)
                  IN  IF ~below.ok THEN [ok |-> FALSE, loads |-> here \o below.loads]
                      ELSE LET rest == read_table_loads(file, number, page, query, i + 1)
                           IN  [ok |-> rest.ok,
                                loads |-> here \o below.loads \o rest.loads]

WalkFilters == {NoWhere, Where("c", <<"7">>)}

InitWalk ==
    /\ \E rowmap \in SliceRowMaps :
         \E cuts \in TableCuts(Cardinality(DOMAIN rowmap)),
            seps \in IndexSeps(Cardinality(DOMAIN rowmap)) :
            /\ rows = SourceRows(rowmap, Null)
            /\ pages = File(rowmap, cuts, Null, TRUE, seps)
            /\ schema = Store(rowmap, cuts, TRUE)
    /\ wanted_ids \in RowidSlices
    /\ page_loads = <<>>
    /\ sql_statement = NoStatement
    /\ out = <<>> /\ emitted = <<>> /\ plan = "none" /\ result = "none"
    /\ impure = 0
    /\ IdleVarint /\ IdleRecord /\ IdleSerial
    /\ IdleOpen /\ IdleCell /\ IdleSql /\ IdleSchema

(* read_table(root page of t, query, out) *)
ReadTable(filter) ==
    /\ result = "none"
    /\ sql_statement' = [fields |-> <<"c", "id">>, table |-> TableName,
                         where_clause |-> filter]
    /\ LET table == schema.tables[TableName]
           root == get_page(pages, table.rootpage - 1).page
           query == Query_new(table, sql_statement')
           r == read_table(pages, root, query)
       IN  /\ out' = out \o [k \in 1..Len(r.rows) |-> r.rows[k].line]
           /\ emitted' = emitted \o [k \in 1..Len(r.rows) |-> r.rows[k].rowid]
           /\ result' = r.status
           /\ page_loads' = read_table_loads(pages, table.rootpage, root, query, 1).loads
    /\ plan' = "rows"
    /\ UNCHANGED <<pages, schema, rows, impure, wanted_ids>>
    /\ UNCHANGED <<varintVars, recordVars, serialVars>>
    /\ UNCHANGED <<openVars, cellVars, sqlVars, schemaVars>>

NextWalk ==
    \/ \E filter \in WalkFilters : ReadTable(filter)
    \/ \E literal \in Literals : ReadIndex(literal)
    \/ \E field_list \in FieldLists : ReadIdsFromTable(field_list)

SpecWalk == InitWalk /\ [][NextWalk]_vars

(* Properties of the walks *)

LoadsEachPageAtMostOnce ==
    \A j, k \in 1..Len(page_loads) :
        j < k => page_loads[j].number # page_loads[k].number

(* C26: on a file whose child pointers form a tree, every walk returns
   after fewer loads than the file has pages, has loaded no page twice, and
   changes neither the pages of the file nor the schema store nor the opened
   database with its header *)
WalksTerminateAndOnlyRead ==
    [][/\ result' # "none"
       /\ Len(page_loads') < Cardinality(DOMAIN pages)
       /\ LoadsEachPageAtMostOnce'
       /\ pages' = pages /\ schema' = schema /\ db' = db]_vars

WalkLoadedEveryTablePage ==
    /\ result = "ok" /\ plan = "rows"
    /\ Len(page_loads) >= 3

====
